---- MODULE Spec2Model ----
(***************************************************************************)
(* A model of the data-source provider of lds-angular                      *)
(* (ListDataSourceProvider, src/unnamed/part_004): the persisted cache     *)
(* store with its load / save / eviction / clear operations, and the       *)
(* client-side windowing of a local data source.                           *)
(*                                                                         *)
(* Time is counted in whole hours since the epoch.  A JavaScript object is *)
(* modelled with its identity where the code depends on it: every cache    *)
(* entry held in memory carries an object id (oid), and an entry's state   *)
(* and filters are either a value (an object parsed from JSON) or a        *)
(* reference to the live object of a data-source instance.                 *)
(***************************************************************************)
EXTENDS Integers, Sequences, FiniteSets, TLC

(* ------------------------------------------------------------------ *)
(* Program constants                                                    *)
(* ------------------------------------------------------------------ *)
MAX_CACHE_SIZE == 50
CACHE_EXPIRATION_HOURS == 168
\* _cleanOldCaches: this.dsCaches.splice(40)
KEEP_NEWEST == 40

(* ------------------------------------------------------------------ *)
(* Bounds of the model                                                  *)
(* ------------------------------------------------------------------ *)
\* the clock reading (hours since the epoch) when the model starts
Now0 == 1000
\* how often the clock advances
MaxTicks == 1
\* data-source instances alive in the page
NumDs == 1
\* the view state and the filters of an instance are abstracted to 0..MaxView
MaxView == 1
\* valid entries around the odd element of a persisted array
MaxBase == 2
\* the largest page index a pager asks for
MaxPage == 11
\* loads of a page in one behaviour
MaxLoads == 2
\* startItemIndex and pageIndex of an instance when the model starts
MaxStart == 2
MaxPageIndex == 1
\* how far endItemIndex lies behind startItemIndex when the model starts
MaxSpan == 4
\* items of the source array of the instance that is sorted
MaxItems == 3
\* sorts of one instance
MaxSorts == 2
\* properties of a filters object
MaxKeys == 3
\* transport calls, navigations and the highest page of a remote instance
MaxRequests == 2
MaxNavigations == 1
MaxRemotePage == 1

VARIABLES
    now,          \* new Date(): the clock, in hours
    ticks,        \* clock advances so far
    pathname,     \* location.pathname
    storage,      \* the value persisted under the key 'datasources'
    constructed,  \* the provider's constructor has run
    dsCaches,     \* ListDataSourceProvider.dsCaches
    cacheMap,     \* ListDataSourceProvider._cacheMap: key -> oid of the entry
    ds,           \* the data-source instances
    last,         \* what the last operation did (history)
    localState,   \* ds.state of the local instance: totalItemCount, pagination
    sourceItems,  \* ds.sourceItems: the RowNumberLds of each item, 0 when not set
    dsItems,      \* ds.items: the installed page, as indices into sourceItems
    loads,        \* pages loaded so far
    lastPage,     \* what the last onDataRequested did (history)
    ldsConfig,    \* the configuration the provider was constructed with
    instConfig,   \* the configuration passed to get...DataSource
    sortDs,       \* the local instance as sortItemsLocally sees it
    sortLast,     \* what the last sort request did (history)
    queryFilters, \* the filters object handed to toQueryStringEncoded
    queryString,  \* ds.state.queryString, character by character
    queried,      \* toQueryStringEncoded has run
    applied,      \* the filters a fresh instance has after applyQueryParams
    remote,       \* the remote instance: items, total, isLoading, view state
    inflight,     \* transport calls whose callback has not been invoked
    fired,        \* the callbacks invoked so far, in order (history)
    notified,     \* how often the collaborators were called (history)
    remoteLast,   \* what the last operation on the remote instance did (history)
    made,         \* what the last factory call was given and handed on (history)
    subscriber,   \* the handlers the application subscribed to the instance's events
    seen,         \* what the handlers and the transport saw in the last operation
    local,        \* ds.items of the local instance that sorts and pages (item ids)
    configObjects \* the configuration objects and the sections they share

cacheVars == <<now, ticks, pathname, storage, constructed, dsCaches, cacheMap, ds, last>>
pageVars == <<localState, sourceItems, dsItems, loads, lastPage>>
configVars == <<ldsConfig, instConfig>>
sortVars == <<sortDs, sortLast>>
queryVars == <<queryFilters, queryString, queried, applied>>
remoteVars == <<remote, inflight, fired, notified, remoteLast, seen>>
factoryVars == <<made>>
appVars == <<subscriber>>
localVars == <<local>>
shareVars == <<configObjects>>
\* what the operations on the cache store leave alone
otherVars == <<pageVars, configVars, sortVars, queryVars, remoteVars, factoryVars, appVars, localVars, shareVars>>
\* what the windowing, the sort and the encoding of the query string leave alone
exceptPage == <<cacheVars, configVars, sortVars, queryVars, remoteVars, factoryVars, appVars, localVars, shareVars>>
exceptSort == <<cacheVars, pageVars, configVars, queryVars, remoteVars, factoryVars, appVars, localVars, shareVars>>
exceptQuery == <<cacheVars, pageVars, configVars, sortVars, remoteVars, factoryVars, appVars, localVars, shareVars>>
\* what the operations on a remote instance leave alone
exceptRemote == <<now, ticks, pathname, constructed, last, pageVars, configVars,
                  sortVars, queryVars, factoryVars, appVars, localVars, shareVars>>
vars == <<cacheVars, otherVars>>

(* ------------------------------------------------------------------ *)
(* Values                                                               *)
(* ------------------------------------------------------------------ *)
\* an optional string property: <<>> when the key is missing
Some(s) == <<s>>
None == <<>>
\* JavaScript truthiness of an optional string property
Truthy(f) == f # <<>> /\ f[1] # ""

\* a date property: missing, an unparsable string, or an ISO string
NoDate == [k |-> "none", t |-> 0]
BadDate == [k |-> "bad", t |-> 0]
IsoDate(t) == [k |-> "iso", t |-> t]

\* a state or filters property: missing, a value, or a reference to the
\* live object of instance v
NoObj == [k |-> "none", v |-> 0]
Val(v) == [k |-> "val", v |-> v]
Ref(i) == [k |-> "ref", v |-> i]

Paths == {"/p", "/x|/p"}
DsIndex == 1..NumDs

\* ids of the entries a previous session left in the store
BaseId(i) == "b" \o ToString(i)
\* ids of the instances of this page: one a previous session saved under "/p",
\* a new one, one containing the key separator
DsId(i) == IF i = 1 THEN BaseId(1)
           ELSE IF i = 2 THEN "a"
           ELSE IF i = 3 THEN "a|/x"
           ELSE BaseId(i - 2)

Min(a, b) == IF a < b THEN a ELSE b

(* ------------------------------------------------------------------ *)
(* Configuration                                                        *)
(* ------------------------------------------------------------------ *)
\* A key of a configuration object the caller passes is an optional value:
\* Undefined when the key is not set, Some(v) when it is.
Undefined == <<>>

\* defaultLdsConfig of the core package, as documented
DefaultLdsConfig == [useRouting |-> FALSE, saveState |-> FALSE, storage |-> "session"]

\* a configuration object that sets no key
NoConfig == [useRouting |-> Undefined, saveState |-> Undefined, storage |-> Undefined]

\* the constructor: Object.assign({}, defaultLdsConfig), then saveState and
\* debugMode when defined, then copyConfig, which copies the sections
\* pagination, sort and http
ProviderConfig(cfg) ==
    [DefaultLdsConfig EXCEPT
        !.saveState = IF cfg.saveState # Undefined THEN cfg.saveState[1] ELSE @]

\* createNew...DataSource: Object.assign({}, this.config), then copyConfig of
\* the sections of the instance's configuration
InstanceConfig(config, cfg) == config

\* the storage object _safeStorageGet, _safeStorageSet and clearStorage use
Backend(config) == IF config.storage = "local" THEN "local" ELSE "session"

(* ------------------------------------------------------------------ *)
(* The persisted value and the entries                                  *)
(* ------------------------------------------------------------------ *)
\* the value under 'datasources': no value, the empty string, text that is
\* no JSON, JSON that is no array, or a JSON array
Absent == [kind |-> "absent", items |-> <<>>]
EmptyString == [kind |-> "empty", items |-> <<>>]
Garbage == [kind |-> "garbage", items |-> <<>>]
NonArray == [kind |-> "nonarray", items |-> <<>>]
JsonArray(items) == [kind |-> "array", items |-> items]

\* an element of a persisted array: null, or an object with these properties
JsonNull ==
    [null |-> TRUE, id |-> None, pathName |-> None, date |-> NoDate,
     type |-> "remote", state |-> NoObj, filters |-> NoObj]
JsonEntry(id, pathName, date, type, state, filters) ==
    [null |-> FALSE, id |-> id, pathName |-> pathName, date |-> date,
     type |-> type, state |-> state, filters |-> filters]

\* JSON.parse gives every element a fresh object
FromJson(c, oid) ==
    [oid |-> oid, id |-> c.id, pathName |-> c.pathName, date |-> c.date,
     type |-> c.type, state |-> c.state, filters |-> c.filters]

\* JSON.stringify reads through a reference to the live object
StateNow(e, dss) == IF e.state.k = "ref" THEN Val(dss[e.state.v].state) ELSE e.state
FiltersNow(e, dss) ==
    IF e.filters.k = "ref" THEN Val(dss[e.filters.v].filters) ELSE e.filters
ToJson(e, dss) ==
    JsonEntry(e.id, e.pathName, e.date, e.type, StateNow(e, dss), FiltersNow(e, dss))
Stringify(caches, dss) ==
    JsonArray([j \in 1..Len(caches) |-> ToJson(caches[j], dss)])

(* ------------------------------------------------------------------ *)
(* Cache management helpers                                             *)
(* ------------------------------------------------------------------ *)
GetCacheKey(id, pathName) == id \o "|" \o pathName
EntryKey(e) == GetCacheKey(e.id[1], e.pathName[1])
Keys(caches) == {EntryKey(caches[j]) : j \in 1..Len(caches)}
EmptyMap == [k \in {} |-> 0]

\* Map.get: the oid stored under the key, 0 for undefined
GetCacheById(map, id, pathName) ==
    LET key == GetCacheKey(id, pathName)
    IN IF key \in DOMAIN map THEN map[key] ELSE 0


RebuildCacheMap(caches) ==
    [k \in Keys(caches) |->
        LET j == CHOOSE j \in 1..Len(caches) :
                    /\ EntryKey(caches[j]) = k
                    /\ \A j2 \in (j + 1)..Len(caches) : EntryKey(caches[j2]) # k
        IN caches[j].oid]

\* a variant that checks the date and not its age
IsCacheValidNoExpiry(cache, t) == cache.date.k = "iso"

IsCacheValid(cache, t) ==
    IF cache.date.k = "none" THEN FALSE
    ELSE IF cache.date.k = "bad" THEN FALSE
    ELSE (t - cache.date.t) < CACHE_EXPIRATION_HOURS

\* new Date(a.date || 0).getTime()
DateTime(e) == IF e.date.k = "iso" THEN e.date.t ELSE 0

\* Array.prototype.sort with (a, b) => dateB - dateA: stable, newest first.
\* A stable sort by one key lists, for each key value from the largest down,
\* the elements with that value in their old order.
RECURSIVE NewestFirst(_, _)
NewestFirst(s, dates) ==
    IF dates = {} THEN <<>>
    ELSE LET m == CHOOSE d \in dates : \A d2 \in dates : d2 <= d
         IN SelectSeq(s, LAMBDA e : DateTime(e) = m) \o NewestFirst(s, dates \ {m})
\* a variant that leaves the array in its order
KeepArrayOrder(s) == s
SortByDateDesc(s) == NewestFirst(s, {DateTime(s[j]) : j \in 1..Len(s)})

\* a variant that sorts and removes nothing
CleanOldCachesKeepsAll(caches, map) ==
    [caches |-> SortByDateDesc(caches), map |-> map]

\* a variant that removes the entries and leaves their keys in the index
SpliceKeepsIndex(sorted, map) ==
    [caches |-> SubSeq(sorted, 1, Min(KEEP_NEWEST, Len(sorted))), map |-> map]
\* splice(40) on the sorted array, and the removed entries' keys leave the index
SpliceOldest(sorted, map) ==
    [caches |-> SubSeq(sorted, 1, Min(KEEP_NEWEST, Len(sorted))),
     map |-> [k \in DOMAIN map
                    \ Keys(SubSeq(sorted, Min(KEEP_NEWEST, Len(sorted)) + 1, Len(sorted)))
                |-> map[k]]]

CleanOldCaches(caches, map) == SpliceOldest(SortByDateDesc(caches), map)

(* ------------------------------------------------------------------ *)
(* Storage access.  fail: the storage call throws.                      *)
(* ------------------------------------------------------------------ *)
SafeStorageGet(sto, fail) ==
    [threw |-> FALSE, value |-> IF fail THEN Absent ELSE sto]

SafeStorageSet(sto, value, fail) ==
    [threw |-> FALSE, saved |-> ~fail, storage |-> IF fail THEN sto ELSE value]

\* a variant without the try block: the failure of removeItem is thrown on
ClearStorageNoCatch(sto, caches, map, fail) ==
    IF fail
    THEN [threw |-> TRUE, storage |-> sto, caches |-> caches, map |-> map]
    ELSE [threw |-> FALSE, storage |-> Absent, caches |-> <<>>, map |-> EmptyMap]

ClearStorage(sto, caches, map, fail) ==
    IF fail
    THEN [threw |-> FALSE, storage |-> sto, caches |-> caches, map |-> map]
    ELSE [threw |-> FALSE, storage |-> Absent, caches |-> <<>>, map |-> EmptyMap]

(* ------------------------------------------------------------------ *)
(* _loadDsCaches                                                        *)
(* ------------------------------------------------------------------ *)
\* the filter callback of _loadDsCaches
LoadKeeps(cache, t) ==
    /\ Truthy(cache.id)
    /\ Truthy(cache.pathName)
    /\ cache.state.k # "none"
    /\ IsCacheValid(cache, t)

\* reading a property of a null element throws a TypeError
FilterThrows(items) == \E j \in 1..Len(items) : items[j].null

LoadFilter(items, t) ==
    LET kept == SelectSeq(items, LAMBDA c : LoadKeeps(c, t))
    IN [j \in 1..Len(kept) |-> FromJson(kept[j], j)]

\* failGet, failRemove: getItem / removeItem throws
\* the catch block: this.dsCaches = [], this._cacheMap.clear(), clearStorage()
LoadCaught(cleared) ==
    [threw |-> cleared.threw, storage |-> cleared.storage,
     caches |-> <<>>, map |-> EmptyMap, reset |-> TRUE]

\* the filtered array becomes the store and the index is rebuilt from it
LoadKept(sto, caches) ==
    [threw |-> FALSE, storage |-> sto,
     caches |-> caches, map |-> RebuildCacheMap(caches), reset |-> FALSE]

\* a variant without the catch block
LoadParsedNoCatch(sto, json, t, failRemove) ==
    IF json.kind = "array" /\ ~FilterThrows(json.items)
    THEN LoadKept(sto, LoadFilter(json.items, t))
    ELSE [threw |-> json.kind \in {"garbage", "array"}, storage |-> sto,
          caches |-> <<>>, map |-> EmptyMap, reset |-> FALSE]
\* the try block, given what _safeStorageGet returned
LoadParsed(sto, json, t, failRemove) ==
    IF json.kind = "garbage" \/ (json.kind = "array" /\ FilterThrows(json.items))
    THEN LoadCaught(ClearStorage(sto, <<>>, EmptyMap, failRemove))
    ELSE IF json.kind = "array"
    THEN LoadKept(sto, LoadFilter(json.items, t))
    ELSE [threw |-> FALSE, storage |-> sto,
          caches |-> <<>>, map |-> EmptyMap, reset |-> FALSE]

LoadDsCaches(sto, t, failGet, failRemove) ==
    LoadParsed(sto, SafeStorageGet(sto, failGet).value, t, failRemove)

(* ------------------------------------------------------------------ *)
(* _toDataSourceCache and _saveCacheToLocalStorage                      *)
(* ------------------------------------------------------------------ *)
\* the new entry holds ds.state and ds.filters themselves
ToDataSourceCache(i, dss, path, t) ==
    [oid |-> 0, id |-> Some(dss[i].id), pathName |-> Some(path), date |-> IsoDate(t),
     type |-> dss[i].type, state |-> Ref(i), filters |-> Ref(i)]

\* an object id no entry of the array or of the map has
FreshOid(caches, map) ==
    LET used == {caches[j].oid : j \in 1..Len(caches)} \cup {map[k] : k \in DOMAIN map}
    IN CHOOSE o \in 1..(Cardinality(used) + 1) :
          o \notin used /\ \A o2 \in 1..(o - 1) : o2 \in used

\* a variant that appends the updated entry
UpdateByAppend(caches, oid, newCache) ==
    Append(caches, [newCache EXCEPT !.oid = oid])
\* the branch of an existing key: the entry object is updated in place
UpdateExisting(caches, oid, newCache) ==
    [j \in 1..Len(caches) |->
        IF caches[j].oid = oid
        THEN [caches[j] EXCEPT !.date = newCache.date, !.filters = newCache.filters,
                               !.state = newCache.state, !.type = newCache.type]
        ELSE caches[j]]

\* a variant that pushes the entry and does not enter it in the index
InsertNewNoIndex(caches, map, key, newCache) ==
    [caches |-> Append(caches, [newCache EXCEPT !.oid = FreshOid(caches, map)]),
     map |-> map]

\* this.dsCaches.push(newCache); this._cacheMap.set(key, newCache)
PushCache(caches, map, key, oid, newCache) ==
    [caches |-> Append(caches, [newCache EXCEPT !.oid = oid]),
     map |-> [k \in DOMAIN map \cup {key} |-> IF k = key THEN oid ELSE map[k]]]

InsertNew(caches, map, key, newCache) ==
    PushCache(caches, map, key, FreshOid(caches, map), newCache)

\* the store when the push happens: after _cleanOldCaches if the array is full
BeforePush(caches, map) ==
    IF Len(caches) >= MAX_CACHE_SIZE
    THEN CleanOldCaches(caches, map)
    ELSE [caches |-> caches, map |-> map]

\* the branch of a new key: eviction when the array is full, then the push
AddNewCache(c0, evict, key, newCache) ==
    LET c == InsertNew(c0.caches, c0.map, key, newCache)
    IN [caches |-> c.caches, map |-> c.map,
        evicted |-> evict, sizeAtInsert |-> Len(c0.caches), isNew |-> TRUE]

\* lines 236-253: update in place, or evict and push
UpdateOrInsert(caches, map, newCache) ==
    LET key == GetCacheKey(newCache.id[1], newCache.pathName[1])
    IN IF key \in DOMAIN map
       THEN [caches |-> UpdateExisting(caches, map[key], newCache), map |-> map,
             evicted |-> FALSE, sizeAtInsert |-> Len(caches), isNew |-> FALSE]
       ELSE AddNewCache(BeforePush(caches, map), Len(caches) >= MAX_CACHE_SIZE,
                        key, newCache)

\* a variant that gives up after the first failed write
GiveUpAfterFailure(sto, a, dss, fail2) ==
    [storage |-> sto, caches |-> a.caches, map |-> a.map,
     writes |-> 1, cleanedAgain |-> FALSE, saved |-> FALSE, threw |-> FALSE]

\* lines 258-263: the first write failed; clean up and write once more
SecondWrite(b, w2) ==
    [storage |-> w2.storage, caches |-> b.caches, map |-> b.map,
     writes |-> 2, cleanedAgain |-> TRUE, saved |-> w2.saved, threw |-> w2.threw]

WriteAgain(sto, b, dss, fail2) ==
    SecondWrite(b, SafeStorageSet(sto, Stringify(b.caches, dss), fail2))

RetryAfterFailure(sto, a, dss, fail2) ==
    WriteAgain(sto, CleanOldCaches(a.caches, a.map), dss, fail2)

\* fail1, fail2: the first / the second setItem throws.  The try block of the
\* method catches whatever is thrown inside it.
\* lines 255-263: the first write, and the retry when it returned false
FirstWrite(sto, a, w1, dss, fail2) ==
    IF w1.threw \/ w1.saved
    THEN [storage |-> w1.storage, caches |-> a.caches, map |-> a.map,
          writes |-> 1, cleanedAgain |-> FALSE, saved |-> w1.saved,
          threw |-> w1.threw]
    ELSE RetryAfterFailure(sto, a, dss, fail2)

\* what the method leaves: its try block catches whatever is thrown inside it
SaveDone(a, r) ==
    [threw |-> FALSE, storage |-> r.storage, caches |-> r.caches, map |-> r.map,
     isNew |-> a.isNew, evicted |-> a.evicted, sizeAtInsert |-> a.sizeAtInsert,
     sizeAfterInsert |-> Len(a.caches), writes |-> r.writes,
     cleanedAgain |-> r.cleanedAgain, saved |-> r.saved]

\* the store after the update or the push is written
WriteCaches(sto, a, dss, fail1, fail2) ==
    SaveDone(a, FirstWrite(sto, a, SafeStorageSet(sto, Stringify(a.caches, dss), fail1),
                           dss, fail2))

SaveCacheToLocalStorage(sto, caches, map, dss, newCache, fail1, fail2) ==
    WriteCaches(sto, UpdateOrInsert(caches, map, newCache), dss, fail1, fail2)

(* ------------------------------------------------------------------ *)
(* What a previous session left in the storage                          *)
(* ------------------------------------------------------------------ *)
\* entry i of a previous session, saved one to five hours before Now0
BaseEntry(i) ==
    JsonEntry(Some(BaseId(i)), Some("/p"), IsoDate(Now0 - 1 - ((i * 3 + 1) % 5)),
              IF i % 2 = 1 THEN "remote" ELSE "local", Val(0), Val(0))
BaseArray(n) == [i \in 1..n |-> BaseEntry(i)]

JunkKinds ==
    {"null", "noId", "emptyId", "noPath", "noState", "noDate", "badDate",
     "expired", "boundary", "young"}
JunkEntry(kind) ==
    LET ok == JsonEntry(Some("j"), Some("/p"), IsoDate(Now0), "remote", Val(1), Val(1))
    IN CASE kind = "null" -> JsonNull
         [] kind = "noId" -> [ok EXCEPT !.id = None]
         [] kind = "emptyId" -> [ok EXCEPT !.id = Some("")]
         [] kind = "noPath" -> [ok EXCEPT !.pathName = None]
         [] kind = "noState" -> [ok EXCEPT !.state = NoObj]
         [] kind = "noDate" -> [ok EXCEPT !.date = NoDate]
         [] kind = "badDate" -> [ok EXCEPT !.date = BadDate]
         [] kind = "expired" -> [ok EXCEPT !.date = IsoDate(Now0 - CACHE_EXPIRATION_HOURS - 1)]
         [] kind = "boundary" -> [ok EXCEPT !.date = IsoDate(Now0 - CACHE_EXPIRATION_HOURS)]
         [] OTHER -> [ok EXCEPT !.date = IsoDate(Now0 - CACHE_EXPIRATION_HOURS + 1)]

\* a base array with one more element after its first entry
WithJunk(n, kind) ==
    JsonArray(<<BaseEntry(1), JunkEntry(kind)>> \o SubSeq(BaseArray(n), 2, n))

\* the sizes of the store at which its bounds show
StoreSizes == {MAX_CACHE_SIZE - 1, MAX_CACHE_SIZE}

\* what the sessions of this program leave: nothing, or a full store
CacheStorages == {Absent} \cup {JsonArray(BaseArray(n)) : n \in StoreSizes}
\* what load() must cope with
LoadStorages ==
    {Absent, EmptyString, Garbage, NonArray, JsonArray(BaseArray(1))}
        \cup {WithJunk(n, kind) : n \in 1..MaxBase, kind \in JunkKinds}

(* ------------------------------------------------------------------ *)
(* Client-side sort of a local data source                              *)
(* ------------------------------------------------------------------ *)
\* the sort field of an item that is null or undefined
Null == <<>>
\* items of a source array: id tells them apart, val is the sort field
Item(id, val) == [id |-> id, val |-> val]
\* values of a field of dataType 'number' and of dataType 'string'
NumberValues == {Some(0 - 1), Some(0), Some(2)}
StringValues == {Some(""), Some("a"), Some("B")}
\* String.prototype.localeCompare orders by the locale's collation, in which
\* the empty string comes first and "a" before "B" (code units have "B" < "a")
LocaleRank(str) ==
    CASE str = "" -> 0
      [] str = "a" -> 1
      [] str = "B" -> 2
LocaleCompare(x, y) ==
    IF LocaleRank(x) < LocaleRank(y) THEN 0 - 1
    ELSE IF LocaleRank(x) > LocaleRank(y) THEN 1 ELSE 0

sort_asc(a, b) ==
    IF a.val = Null THEN 1
    ELSE IF b.val = Null THEN 0 - 1
    ELSE a.val[1] - b.val[1]
sort_desc(a, b) ==
    IF b.val = Null THEN 0 - 1
    ELSE IF a.val = Null THEN 1
    ELSE b.val[1] - a.val[1]
sort_asc_string(a, b) ==
    IF a.val = Null THEN 1
    ELSE IF b.val = Null THEN 0 - 1
    ELSE LocaleCompare(a.val[1], b.val[1])
sort_desc_string(a, b) ==
    IF b.val = Null THEN 0 - 1
    ELSE IF a.val = Null THEN 1
    ELSE LocaleCompare(b.val[1], a.val[1])
\* the comparators with the null tests left out (a null counts as the
\* smallest value)
CompareNoNullRule(cmp, a, b) ==
    LET rank(v) == IF v = Null THEN 0 - 9
                   ELSE IF cmp \in {"sort_asc_string", "sort_desc_string"}
                        THEN LocaleRank(v[1]) ELSE v[1]
    IN  IF cmp \in {"sort_asc", "sort_asc_string"}
        THEN rank(a.val) - rank(b.val)
        ELSE rank(b.val) - rank(a.val)
\* the comparison function handed to Array.prototype.sort
Compare(cmp, a, b) ==
    CASE cmp = "sort_asc" -> sort_asc(a, b)
      [] cmp = "sort_desc" -> sort_desc(a, b)
      [] cmp = "sort_asc_string" -> sort_asc_string(a, b)
      [] cmp = "sort_desc_string" -> sort_desc_string(a, b)

\* Array.prototype.sort.  The comparators answer "greater" for two nulls in
\* both orders (sort_asc) or "less" in both orders (sort_desc), so they are not
\* consistent comparison functions and the order is the engine's: the model has
\* an insertion sort and a merge sort, and a sort picks either.
Engines == {"insertion", "merge"}
RECURSIVE InsertItem(_, _, _)
InsertItem(sorted, x, cmp) ==
    IF sorted = <<>> THEN <<x>>
    ELSE IF Compare(cmp, sorted[Len(sorted)], x) > 0
         THEN Append(InsertItem(SubSeq(sorted, 1, Len(sorted) - 1), x, cmp),
                     sorted[Len(sorted)])
         ELSE Append(sorted, x)
RECURSIVE InsertionSort(_, _, _)
InsertionSort(arr, n, cmp) ==
    IF n = 0 THEN <<>>
    ELSE InsertItem(InsertionSort(arr, n - 1, cmp), arr[n], cmp)
RECURSIVE Merge(_, _, _)
Merge(l, r, cmp) ==
    IF l = <<>> THEN r
    ELSE IF r = <<>> THEN l
    ELSE IF Compare(cmp, l[1], r[1]) <= 0
         THEN <<l[1]>> \o Merge(Tail(l), r, cmp)
         ELSE <<r[1]>> \o Merge(l, Tail(r), cmp)
RECURSIVE MergeSort(_, _)
MergeSort(arr, cmp) ==
    IF Len(arr) <= 1 THEN arr
    ELSE Merge(MergeSort(SubSeq(arr, 1, Len(arr) \div 2), cmp),
               MergeSort(SubSeq(arr, Len(arr) \div 2 + 1, Len(arr)), cmp),
               cmp)
ArraySort(arr, cmp, engine) ==
    IF engine = "insertion" THEN InsertionSort(arr, Len(arr), cmp)
    ELSE MergeSort(arr, cmp)

\* the registered field and the name of a field that is not registered
FieldNames == {"Name", "Nope"}
\* ds.field(fieldName)
HasField(fieldName) == fieldName = "Name"
\* field.dataType || 'number'
DataTypeOrNumber(dataType) == IF dataType = Undefined THEN "number" ELSE dataType[1]
\* ds.state.sort1Dir || ds.config.sort.defaultDir
DirOrDefault(d) == IF d.sort1Dir = Undefined THEN d.defaultDir ELSE d.sort1Dir[1]
\* `${fieldName} ${dir}`
SortName(fieldName, dir) == fieldName \o " " \o dir
\* the four branches of sortItemsLocally
Comparator(dir, dataType) ==
    IF dir = "desc"
    THEN IF dataType = "string" THEN "sort_desc_string" ELSE "sort_desc"
    ELSE IF dataType = "string" THEN "sort_asc_string" ELSE "sort_asc"
\* sortItemsLocally always sorting (no test of appliedSortName)
SortAgain(d, applying) == FALSE
\* if (ds.appliedSortName == applyingSortName) { return; }
AlreadyApplied(d, applying) == d.appliedSortName = Some(applying)
\* the instance after the sort ran: arr.sort in place, ds.setSourceItems
Sorted(d, applying, cmp, engine) ==
    [d EXCEPT !.appliedSortName = Some(applying),
              !.sourceItems = ArraySort(d.sourceItems, cmp, engine),
              !.sortCalls = @ + 1]
\* sortItemsLocally(ds, fieldName) from the assignment of field.dataType on
TypedSort(d, fieldName, engine) ==
    IF AlreadyApplied(d, SortName(fieldName, DirOrDefault(d))) THEN d
    ELSE Sorted(d, SortName(fieldName, DirOrDefault(d)),
                Comparator(DirOrDefault(d), d.dataType[1]), engine)
SortItemsLocally(d, fieldName, engine) ==
    IF fieldName = Undefined THEN d
    ELSE IF ~HasField(fieldName[1]) THEN d
    ELSE TypedSort([d EXCEPT !.dataType = Some(DataTypeOrNumber(@))],
                   fieldName[1], engine)
\* ds.changeSort(fieldName, dir): the direction is set, or toggled when no
\* direction is given and the field is the current sort field
Toggle(dir) == IF dir = "asc" THEN "desc" ELSE "asc"
SetSort(d, fieldName, dir) ==
    [d EXCEPT !.sort1Name = Some(fieldName),
              !.sort1Dir = IF dir # Undefined THEN dir ELSE Some(Toggle(@[1]))]

(* ------------------------------------------------------------------ *)
(* The query string of a remote fetch                                   *)
(* ------------------------------------------------------------------ *)
\* A value of the filters object: its JavaScript type and the characters of
\* its conversion to a string (String(0) is "0", String(false) is "false").
Value(type, chars) == [type |-> type, chars |-> chars]
QueryValues ==
    {Value("null", <<>>), Value("undefined", <<>>), Value("string", <<>>),
     Value("string", <<"a", " ", "b">>), Value("string", <<"x", "&", "y">>),
     Value("string", <<"1", "=", "%">>), Value("number", <<"0">>),
     Value("boolean", <<"f", "a", "l", "s", "e">>)}
QueryKeys == {"q", "n", "p"}
\* the filters objects: properties in the order of Object.keys, no key twice
FilterObjects ==
    UNION {{obj \in [1..n -> [key : QueryKeys, value : QueryValues]] :
               \A i, j \in 1..n : i # j => obj[i].key # obj[j].key} :
           n \in 0..MaxKeys}
\* a variant that escapes nothing
EncodeCharPlain(c) == <<c>>
\* encodeURIComponent of one character: the unreserved ones stay, the others
\* become the escape of their code
EncodeChar(c) ==
    CASE c = " " -> <<"%", "2", "0">>
      [] c = "&" -> <<"%", "2", "6">>
      [] c = "=" -> <<"%", "3", "D">>
      [] c = "%" -> <<"%", "2", "5">>
      [] OTHER -> <<c>>
RECURSIVE EncodeURIComponent(_)
EncodeURIComponent(chars) ==
    IF chars = <<>> THEN <<>>
    ELSE EncodeChar(chars[1]) \o EncodeURIComponent(Tail(chars))
\* the test written as truthiness of the value: if (obj[key])
OmittedWhenFalsy(v) ==
    \/ v.type \in {"null", "undefined"}
    \/ v.chars = <<>>
    \/ v = Value("number", <<"0">>)
    \/ v = Value("boolean", <<"f", "a", "l", "s", "e">>)
\* not (obj[key] !== null && obj[key] !== undefined && obj[key] !== '')
Omitted(v) ==
    \/ v.type = "null"
    \/ v.type = "undefined"
    \/ (v.type = "string" /\ v.chars = <<>>)
\* the callback of map: key + '=' + encodeURIComponent(obj[key]), or ''
PairOrEmpty(prop) ==
    IF Omitted(prop.value) THEN <<>>
    ELSE <<prop.key, "=">> \o EncodeURIComponent(prop.value.chars)
\* .filter(x => x != '')
RECURSIVE FilterNonEmpty(_)
FilterNonEmpty(parts) ==
    IF parts = <<>> THEN <<>>
    ELSE IF parts[1] = <<>> THEN FilterNonEmpty(Tail(parts))
         ELSE <<parts[1]>> \o FilterNonEmpty(Tail(parts))
\* .join('&')
RECURSIVE Join(_)
Join(parts) ==
    IF parts = <<>> THEN <<>>
    ELSE IF Len(parts) = 1 THEN parts[1]
         ELSE parts[1] \o <<"&">> \o Join(Tail(parts))
\* obj: <<>> for a missing object (!obj), else <<the object>>
ToQueryStringEncoded(obj) ==
    IF obj = <<>> THEN <<>>
    ELSE Join(FilterNonEmpty([k \in 1..Len(obj[1]) |-> PairOrEmpty(obj[1][k])]))

(* ------------------------------------------------------------------ *)
(* Remote fetch                                                         *)
(* ------------------------------------------------------------------ *)
\* what a transport hands to the callback
Outcomes == {"ok", "httpError", "errorFlag"}
\* the page a server answers request req with
Payload(req) == [k \in 1..req |-> 10 * req + k]
\* DefaultListDataSourceProvider.httpGet / httpPost: the response goes to the
\* callback as it is, an HTTP error as { items: [], total: 0 }.  A response
\* may carry the error field of LdsInputModel.
Result(req, outcome) ==
    CASE outcome = "ok" -> [items |-> Payload(req), total |-> req, error |-> FALSE]
      [] outcome = "httpError" -> [items |-> <<>>, total |-> 0, error |-> FALSE]
      [] outcome = "errorFlag" -> [items |-> <<>>, total |-> 0, error |-> TRUE]
\* the decimal digits of a small number
Digits(n) == <<<<"0", "1", "2", "3", "4", "5", "6", "7", "8", "9">>[n + 1]>>
\* ds.getFilters(): the view state as a filters object
OptionalString(v) ==
    IF v = Undefined THEN Value("undefined", <<>>) ELSE Value("string", v)
GetFilters(r) ==
    <<[key |-> "pageIndex", value |-> Value("number", Digits(r.pageIndex))],
      [key |-> "sort1Name", value |-> OptionalString(r.sort1Name)],
      [key |-> "sort1Dir", value |-> OptionalString(r.sort1Dir)]>>
\* EventHub.emit: the handlers run unless the instance is disposed
Emits(r) == ~r.isDisposed
\* ds.setData(result)
SetData(r, result) ==
    IF r.isDisposed THEN r
    ELSE [r EXCEPT !.items = result.items, !.total = result.total]
\* ds.clearState()
ClearState(r) ==
    IF r.isDisposed THEN r
    ELSE [r EXCEPT !.sort1Name = Undefined, !.sort1Dir = Undefined, !.pageIndex = 0]
\* ds.dispose()
Disposed(r) == [r EXCEPT !.isDisposed = TRUE, !.items = <<>>]
\* a callback that installs the result of the latest request only
InstallsLatestOnly(req, latest) == req = latest
\* the callback installs the result of whatever request it belongs to
Installs(req, latest) == TRUE
\* a variant that resets isLoading and clears the state before the events
CallbackStepsResetFirst(r, result) ==
    LET idle == [r EXCEPT !.isLoading = FALSE]
        cleared == IF result.error THEN ClearState(idle) ELSE idle
    IN <<cleared, SetData(cleared, result), SetData(cleared, result),
         SetData(cleared, result)>>
\* the instance along the callback of the transport: when onDataLoaded is
\* emitted, when onStateChanged is emitted (setData has run), after
\* isLoading = false, and at return (clearState for a result with error)
CallbackSteps(r, result) ==
    LET loaded == SetData(r, result)
        idle == [loaded EXCEPT !.isLoading = FALSE]
    IN <<r, loaded, idle, IF result.error THEN ClearState(idle) ELSE idle>>
\* a variant of the callback that leaves isLoading alone
FetchCallbackKeepsLoading(r, result, req, latest) ==
    [CallbackSteps(r, result)[4] EXCEPT !.isLoading = r.isLoading]
\* the callback of the transport, on the instance
FetchCallback(r, result, req, latest) ==
    IF ~Installs(req, latest) THEN r
    ELSE CallbackSteps(r, result)[4]

\* the handlers an application subscribes: none, ones that only look, and
\* handlers of onDataLoading that change the filters object in place
Subscribers == {"none", "observer", "addsKey", "setsPage"}
\* filters[key] = value
SetProperty(obj, key, value) ==
    IF \E j \in 1..Len(obj) : obj[j].key = key
    THEN [j \in 1..Len(obj) |->
            IF obj[j].key = key THEN [key |-> key, value |-> value] ELSE obj[j]]
    ELSE Append(obj, [key |-> key, value |-> value])
\* the handler of onDataLoading, on the object it is given
HandlerMutates(sub, filters) ==
    CASE sub = "addsKey" -> SetProperty(filters, "q", Value("string", <<"a", " ", "b">>))
      [] sub = "setsPage" -> SetProperty(filters, "pageIndex", Value("number", <<"9">>))
      [] OTHER -> filters
\* ds.onDataLoading.emit(filters): the object after the handlers have run
EmitDataLoading(r, sub, filters) ==
    IF Emits(r) THEN HandlerMutates(sub, filters) ELSE filters
\* a variant that encodes the object as it was before the event
EncodedBeforeEmit(r, created, emitted) ==
    [r EXCEPT !.queryString = ToQueryStringEncoded(<<created>>)]
\* ds.state.queryString = this.toQueryStringEncoded(filters), after the emit
Encoded(r, created, emitted) ==
    [r EXCEPT !.queryString = ToQueryStringEncoded(<<emitted>>)]
\* _getDataFromRemoteByGetMethod / ...ByPostMethod up to the transport call
Fetching(r, sub) ==
    [Encoded(r, GetFilters(r), EmitDataLoading(r, sub, GetFilters(r)))
        EXCEPT !.isLoading = TRUE]
\* what a handler or the transport sees of the instance when it is called,
\* and the filters object it is given
Observation(at, r, payload) ==
    [at |-> at, isLoading |-> r.isLoading, items |-> r.items, total |-> r.total,
     sort1Name |-> r.sort1Name, pageIndex |-> r.pageIndex,
     queryString |-> r.queryString, payload |-> payload]
\* the fetch as seen: the handler of onDataLoading, then httpGet / httpPost
\* (called with ds.state.queryString and the filters object as body)
FetchSeen(r, sub) ==
    IF sub = "none" THEN <<>>
    ELSE <<Observation("onDataLoading", r, GetFilters(r)),
           Observation("transport", Fetching(r, sub),
                       EmitDataLoading(r, sub, GetFilters(r)))>>
\* the callback as seen: the handlers of onDataLoaded and of onStateChanged
CallbackSeen(r, sub, result) ==
    IF sub = "none" \/ ~Emits(r) THEN <<>>
    ELSE <<Observation("onDataLoaded", CallbackSteps(r, result)[1], <<>>),
           Observation("onStateChanged", CallbackSteps(r, result)[2], <<>>)>>
\* reload, loadPage and search reach the provider through onDataRequested,
\* changeSort through onSortChanged
EmitsDataRequested(op) == op \in {"reload", "loadPage", "search"}
\* a variant that never routes
RoutesNever(config) == FALSE
\* the handler of onSortChanged of a remote instance
RoutesSort(config) == config.useRouting = TRUE

(* ------------------------------------------------------------------ *)
(* State                                                                *)
(* ------------------------------------------------------------------ *)
InitDs(config) ==
    [i \in DsIndex |->
        [id |-> DsId(i), type |-> IF i % 2 = 1 THEN "remote" ELSE "local",
         saveState |-> config.saveState, useRouting |-> config.useRouting,
         state |-> 0, filters |-> 0]]

\* a local instance before its first page: pagination as constructed
InitPagination(pageSize) ==
    [pageIndex |-> 0, pageSize |-> pageSize, startItemIndex |-> 0, endItemIndex |-> 0]
NoLastPage ==
    [op |-> "none", page |-> 0, input |-> [totalItemCount |-> 0,
                                           pagination |-> InitPagination(0)],
     atReturn |-> [totalItemCount |-> 0, pagination |-> InitPagination(0)]]

\* the record of the last operation on the cache store
NoLast ==
    [op |-> "none", at |-> 0, threw |-> FALSE, failed |-> FALSE, readOk |-> FALSE,
     input |-> <<>>, ds |-> 0, isNew |-> FALSE, evicted |-> FALSE, sizeBefore |-> 0,
     sizeAtInsert |-> 0, sizeAfterInsert |-> 0, writes |-> 0, cleanedAgain |-> FALSE,
     saved |-> FALSE, backend |-> "none"]

\* no factory call yet
NoMade ==
    [method |-> "none", type |-> "none", arg |-> Undefined, ds |-> 0,
     path |-> "", cache |-> 0, count |-> 0]
IdleFactory == made = NoMade

\* no local instance pages
NoSortDs ==
    [sort1Name |-> Undefined, sort1Dir |-> Undefined, defaultDir |-> "desc",
     appliedSortName |-> Undefined, dataType |-> Undefined,
     sourceItems |-> <<>>, sortCalls |-> 0]
NoSortLast == [op |-> "none", field |-> "", dir |-> Undefined, before |-> NoSortDs]
IdleSort ==
    /\ sortDs = NoSortDs
    /\ sortLast = NoSortLast
NoRemote ==
    [items |-> <<>>, total |-> 0, isLoading |-> FALSE, isDisposed |-> FALSE,
     sort1Name |-> Undefined, sort1Dir |-> Undefined, pageIndex |-> 0,
     queryString |-> <<>>]
NoNotified ==
    [navigate |-> 0, onNavigateRequested |-> 0, onDataLoading |-> 0,
     onDataLoaded |-> 0, transport |-> 0]
NoRemoteLast ==
    [op |-> "none", req |-> 0, routing |-> FALSE, navigated |-> FALSE,
     requested |-> FALSE, fetched |-> FALSE, late |-> FALSE, threw |-> FALSE,
     dataRequested |-> FALSE]
IdleRemote ==
    /\ remote = NoRemote
    /\ inflight = {}
    /\ fired = <<>>
    /\ notified = NoNotified
    /\ remoteLast = NoRemoteLast
    /\ seen = <<>>
\* the application subscribed no handler of its own
IdleApp == subscriber = "none"
\* no page of a sorted local instance is installed; keeps: setItems keeps the
\* array it is given (own: ds.items is an array of its own, not ds.sourceItems)
NoLocal == [op |-> "none", keeps |-> FALSE, own |-> TRUE, ids |-> <<>>]
IdleLocal == local = NoLocal
\* defaultLdsConfig with its two section objects, no provider, no instance
NoConfigObjects ==
    [heap |-> <<0, 0>>, provider |-> <<>>, instances |-> <<>>, copies |-> FALSE]
IdleShare == configObjects = NoConfigObjects
\* applyQueryParams has not run; types: the dataType declared for each key
NoApplied == [done |-> FALSE, types |-> [k \in QueryKeys |-> "string"], filters |-> <<>>]
IdleQuery ==
    /\ queryFilters = <<>>
    /\ queryString = <<>>
    /\ queried = FALSE
    /\ applied = NoApplied
IdlePage ==
    /\ localState = [totalItemCount |-> 0, pagination |-> InitPagination(10)]
    /\ sourceItems = <<>>
    /\ dsItems = <<>>
    /\ loads = 0
    /\ lastPage = NoLastPage

\* a provider about to be constructed with one of the configurations over one
\* of the storages; its instances are created with instConfig
InitProvider(storages, configs, instConfigs) ==
    /\ now = Now0
    /\ ticks = 0
    /\ pathname = "/p"
    /\ storage \in storages
    /\ constructed = FALSE
    /\ dsCaches = <<>>
    /\ cacheMap = EmptyMap
    /\ ldsConfig \in configs
    /\ instConfig \in instConfigs
    /\ ds = InitDs(InstanceConfig(ProviderConfig(ldsConfig), instConfig))
    /\ last = NoLast
    /\ IdlePage
    /\ IdleSort
    /\ IdleQuery
    /\ IdleRemote
    /\ IdleFactory
    /\ IdleApp
    /\ IdleLocal
InitWith(storages, configs, instConfigs) ==
    /\ InitProvider(storages, configs, instConfigs)
    /\ IdleShare

\* new Provider({saveState: true})
SaveStateOn == [NoConfig EXCEPT !.saveState = Some(TRUE)]

Init == InitWith(CacheStorages, {SaveStateOn}, {NoConfig})
InitLoad == InitWith(LoadStorages, {SaveStateOn}, {NoConfig})

\* the configurations a caller can pass
ConfigInputs ==
    [useRouting : {Undefined, Some(TRUE)},
     saveState : {Undefined, Some(TRUE), Some(FALSE)},
     storage : {Undefined, Some("local"), Some("session")}]
\* the configurations of an instance that differ in what the claims speak of
InstConfigInputs ==
    {NoConfig, [NoConfig EXCEPT !.useRouting = Some(TRUE)],
     [NoConfig EXCEPT !.saveState = Some(TRUE)],
     [NoConfig EXCEPT !.saveState = Some(FALSE)]}
InitConfig == InitWith({Absent, JsonArray(BaseArray(1))}, ConfigInputs, InstConfigInputs)

\* page sizes and source lengths: sources shorter than, as long as and longer
\* than a page, lengths a page size divides and does not divide
PageSizes == {1, 2, 3, 10}
SourceSizes == {0, 1, 3, 7, 101}

\* A local instance that does not save its state (config.saveState false), in
\* a provider that is constructed over an empty storage.  Its pagination is
\* any that has 0 <= startItemIndex <= endItemIndex.
InitPage ==
    /\ now = Now0
    /\ ticks = 0
    /\ pathname = "/p"
    /\ storage = Absent
    /\ constructed = TRUE
    /\ dsCaches = <<>>
    /\ cacheMap = EmptyMap
    /\ ldsConfig = NoConfig
    /\ instConfig = NoConfig
    /\ ds = [i \in DsIndex |->
                [InitDs(ProviderConfig(ldsConfig))[i] EXCEPT !.type = "local"]]
    /\ last = NoLast
    /\ \E n \in SourceSizes, size \in PageSizes, index \in 0..MaxPageIndex,
          start \in 0..MaxStart, span \in 0..MaxSpan :
          /\ sourceItems = [j \in 1..n |-> 0]
          /\ localState =
                [totalItemCount |-> n,
                 pagination |-> [pageIndex |-> index, pageSize |-> size,
                                 startItemIndex |-> start,
                                 endItemIndex |-> start + span]]
    /\ dsItems = <<>>
    /\ loads = 0
    /\ lastPage = NoLastPage
    /\ IdleSort
    /\ IdleQuery
    /\ IdleRemote
    /\ IdleFactory
    /\ IdleApp
    /\ IdleLocal
    /\ IdleShare

(* ------------------------------------------------------------------ *)
(* Client-side windowing of a local data source                         *)
(* ------------------------------------------------------------------ *)
Max(a, b) == IF a > b THEN a ELSE b
\* Math.ceil(a / b) for a >= 0 and b > 0
CeilDiv(a, b) == (a + b - 1) \div b

\* overfolwCount > 1: the window is moved back so that it ends with the source
ShiftBack(pag, totalItemCount) ==
    LET overfolwCount == (pag.startItemIndex + pag.pageSize) - totalItemCount
    IN IF overfolwCount > 1
       THEN [pag EXCEPT !.startItemIndex = @ - overfolwCount,
                        !.pageIndex = IF @ > 0
                                      THEN @ - CeilDiv(overfolwCount, pag.pageSize)
                                      ELSE @]
       ELSE pag

\* if (pag.startItemIndex < 0) { startItemIndex = 0; pageIndex = 0 }
ClampStart(pag) ==
    IF pag.startItemIndex < 0
    THEN [pag EXCEPT !.startItemIndex = 0, !.pageIndex = 0]
    ELSE pag

\* a variant that forgets to set endItemIndex
KeepEndItemIndex(pag) == pag

\* pag.endItemIndex = pag.startItemIndex + pag.pageSize
SetEndItemIndex(pag) ==
    [pag EXCEPT !.endItemIndex = pag.startItemIndex + pag.pageSize]

\* the while loop: i from startItemIndex while i < endItemIndex and i < length
WindowIndices(pag, length) ==
    [k \in 1..Max(0, Min(pag.endItemIndex, length) - pag.startItemIndex) |->
        pag.startItemIndex + k - 1]

\* item.RowNumberLds = i + 1 for every item of the window (item i is src[i + 1])
NumberRows(src, pag) ==
    [j \in 1..Len(src) |->
        IF pag.startItemIndex <= j - 1 /\ j - 1 < pag.endItemIndex THEN j ELSE src[j]]

\* the branch that builds a window from the adjusted pagination
PageWindow(st, pag, src) ==
    [state |-> [st EXCEPT !.pagination = pag],
     sourceItems |-> NumberRows(src, pag),
     items |-> WindowIndices(pag, Len(src))]

\* st: ds.state, src: ds.sourceItems.  Returns the items and what it wrote.
GetPageItemsLocally(st, src) ==
    IF st.pagination.pageSize <= 0 \/ st.pagination.pageSize >= st.totalItemCount
    THEN [state |-> st, sourceItems |-> src, items |-> [k \in 1..Len(src) |-> k - 1]]
    ELSE PageWindow(st,
                    SetEndItemIndex(ClampStart(ShiftBack(st.pagination,
                                                         st.totalItemCount))),
                    src)

\* loadPage(i) of the data source sets the page and where it starts
SetPageIndex(st, i) ==
    [st EXCEPT !.pagination.pageIndex = i,
               !.pagination.startItemIndex = i * st.pagination.pageSize]

(* ------------------------------------------------------------------ *)
(* Operations                                                           *)
(* ------------------------------------------------------------------ *)
\* the constructor: this.dsCaches = [], this._cacheMap = new Map(), _loadDsCaches()
Construct ==
    /\ ~constructed
    /\ \E failGet \in BOOLEAN, failRemove \in BOOLEAN :
          \E r \in {LoadDsCaches(storage, now, failGet, failRemove)} :
             /\ storage' = r.storage
             /\ dsCaches' = r.caches
             /\ cacheMap' = r.map
             /\ last' = [NoLast EXCEPT !.op = "load", !.at = now, !.threw = r.threw,
                            !.failed = failGet \/ (r.reset /\ failRemove),
                            !.readOk = ~failGet,
                            !.input = storage,
                            !.backend = Backend(ProviderConfig(ldsConfig))]
    /\ constructed' = TRUE
    /\ UNCHANGED <<now, ticks, pathname, ds, otherVars>>

\* the handler did not save: the store and the storage are as they were
NotSaved(sto, caches, map) ==
    [threw |-> FALSE, storage |-> sto, caches |-> caches, map |-> map,
     isNew |-> FALSE, evicted |-> FALSE, sizeAtInsert |-> Len(caches),
     sizeAfterInsert |-> Len(caches), writes |-> 0, cleanedAgain |-> FALSE,
     saved |-> FALSE]

\* a variant that saves whatever config.saveState says
StateChangedAlwaysSaves(i, sto, caches, map, dss, path, t, fail1, fail2) ==
    SaveCacheToLocalStorage(sto, caches, map, dss,
                            ToDataSourceCache(i, dss, path, t), fail1, fail2)

\* the handler of onStateChanged: if (ds.config.saveState) { _toDataSourceCache,
\* _saveCacheToLocalStorage }
StateChangedHandler(i, sto, caches, map, dss, path, t, fail1, fail2) ==
    IF dss[i].saveState
    THEN SaveCacheToLocalStorage(sto, caches, map, dss,
                                 ToDataSourceCache(i, dss, path, t), fail1, fail2)
    ELSE NotSaved(sto, caches, map)

\* onStateChanged is emitted on an instance (configureRemoteDataSource /
\* configureLocalDataSource subscribed the handler)
OnStateChanged ==
    /\ constructed
    /\ \E i \in DsIndex, fail1 \in BOOLEAN, fail2 \in BOOLEAN :
          /\ (fail2 => fail1)
          /\ (fail1 => ds[i].saveState)
          /\ \E r \in {StateChangedHandler(i, storage, dsCaches, cacheMap, ds,
                                            pathname, now, fail1, fail2)} :
                /\ storage' = r.storage
                /\ dsCaches' = r.caches
                /\ cacheMap' = r.map
                /\ last' = [NoLast EXCEPT !.op = IF ds[i].saveState THEN "save"
                                                 ELSE "emit",
                               !.backend = IF ds[i].saveState
                                           THEN Backend(ProviderConfig(ldsConfig))
                                           ELSE "none",
                               !.at = now, !.threw = r.threw,
                               !.failed = fail1, !.ds = i, !.isNew = r.isNew,
                               !.evicted = r.evicted, !.sizeBefore = Len(dsCaches),
                               !.sizeAtInsert = r.sizeAtInsert,
                               !.sizeAfterInsert = r.sizeAfterInsert,
                               !.writes = r.writes, !.cleanedAgain = r.cleanedAgain,
                               !.saved = r.saved]
    /\ UNCHANGED <<now, ticks, pathname, constructed, ds, otherVars>>

\* the public clearStorage()
ClearStorageCall ==
    /\ constructed
    /\ \E fail \in BOOLEAN :
          \E r \in {ClearStorage(storage, dsCaches, cacheMap, fail)} :
             /\ storage' = r.storage
             /\ dsCaches' = r.caches
             /\ cacheMap' = r.map
             /\ last' = [NoLast EXCEPT !.op = "clear", !.at = now, !.threw = r.threw,
                            !.backend = Backend(ProviderConfig(ldsConfig)),
                            !.failed = fail]
    /\ UNCHANGED <<now, ticks, pathname, constructed, ds, otherVars>>

\* the view state of an instance is written without an onStateChanged emission
\* (ds.state.queryString = ... in _getDataFromRemoteByGetMethod)
MutateState ==
    /\ constructed
    /\ \E i \in DsIndex, v \in 0..MaxView :
          /\ v # ds[i].state
          /\ ds' = [ds EXCEPT ![i].state = v]
    /\ UNCHANGED <<now, ticks, pathname, storage, constructed, dsCaches, cacheMap, last, otherVars>>

\* the application writes a filter: dataSource.filters.SearchText = 'query'
MutateFilters ==
    /\ constructed
    /\ \E i \in DsIndex, v \in 0..MaxView :
          /\ v # ds[i].filters
          /\ ds' = [ds EXCEPT ![i].filters = v]
    /\ UNCHANGED <<now, ticks, pathname, storage, constructed, dsCaches, cacheMap, last, otherVars>>

\* the router moves to another path
Navigate ==
    /\ \E p \in Paths : p # pathname /\ pathname' = p
    /\ UNCHANGED <<now, ticks, storage, constructed, dsCaches, cacheMap, ds, last, otherVars>>

\* Time passes between the session that wrote the storage and this one: the
\* clock is read CACHE_EXPIRATION_HOURS later.  Within a session every save
\* reads the same hour.
TimePasses ==
    /\ ticks < MaxTicks
    /\ ~constructed
    /\ now' = now + CACHE_EXPIRATION_HOURS
    /\ ticks' = ticks + 1
    /\ UNCHANGED <<pathname, storage, constructed, dsCaches, cacheMap, ds, last, otherVars>>

\* the handler of onDataRequested of a local instance (configureLocalDataSource):
\* no sort field is set, so sortItemsLocally returns at once; the window is
\* computed and installed with setItems; the instance does not save its state,
\* so the emission of onStateChanged('DataLoaded') changes nothing.
OnDataRequested(op, i, st) ==
    /\ loads < MaxLoads
    /\ \E r \in {GetPageItemsLocally(st, sourceItems)} :
          /\ localState' = r.state
          /\ sourceItems' = r.sourceItems
          /\ dsItems' = r.items
          /\ lastPage' = [op |-> op, page |-> i, input |-> st, atReturn |-> r.state]
    /\ loads' = loads + 1
    /\ UNCHANGED exceptPage

\* ds.loadPage(i)
LoadPage ==
    \E i \in 0..MaxPage :
        /\ ds[1].type = "local" /\ ~ds[1].saveState
        /\ OnDataRequested("loadPage", i, SetPageIndex(localState, i))

\* ds.reload()
Reload ==
    /\ ds[1].type = "local" /\ ~ds[1].saveState
    /\ OnDataRequested("reload", localState.pagination.pageIndex, localState)

\* the cache store: construction, saves, clearing, navigation
Next ==
    \/ Construct
    \/ OnStateChanged
    \/ ClearStorageCall
    \/ Navigate
    \/ TimePasses

Spec == Init /\ [][Next]_vars

\* the cache store with instances whose state and filters are written between
\* the saves
NextView ==
    \/ Next
    \/ MutateState
    \/ MutateFilters
SpecView == Init /\ [][NextView]_vars

\* the cache store within one session: construction, saves and navigation
NextSave ==
    \/ Construct
    \/ OnStateChanged
    \/ Navigate
SpecSave == Init /\ [][NextSave]_vars

\* providers and instances of every configuration
SpecConfig == InitConfig /\ [][Next]_vars

\* the constructor over whatever the storage holds, some time after it was
\* written
NextLoad ==
    \/ Construct
    \/ TimePasses
SpecLoad == InitLoad /\ [][NextLoad]_vars

NextPage ==
    \/ LoadPage
    \/ Reload
SpecPage == InitPage /\ [][NextPage]_vars

\* ds.changeSort(fieldName, dir) on a local instance: the sort of the view
\* state is set, onSortChanged(fieldName) is emitted and its handler
\* (configureLocalDataSource) runs sortItemsLocally(ds, fieldName)
ChangeSort ==
    \E fieldName \in FieldNames, dir \in {Undefined, Some("asc"), Some("desc")},
       engine \in Engines :
        /\ sortDs.sortCalls < MaxSorts
        /\ dir = Undefined =>
              (sortDs.sort1Name = Some(fieldName) /\ sortDs.sort1Dir # Undefined)
        /\ sortDs' = SortItemsLocally(SetSort(sortDs, fieldName, dir),
                                      Some(fieldName), engine)
        /\ sortLast' = [op |-> "changeSort", field |-> fieldName, dir |-> dir,
                        before |-> sortDs]
        /\ UNCHANGED exceptSort

\* a provider constructed without configuration over an empty storage, with
\* a local instance
IdleProvider ==
    /\ now = Now0
    /\ ticks = 0
    /\ pathname = "/p"
    /\ storage = Absent
    /\ constructed = TRUE
    /\ dsCaches = <<>>
    /\ cacheMap = EmptyMap
    /\ ldsConfig = NoConfig
    /\ instConfig = NoConfig
    /\ ds = [i \in DsIndex |->
                [InitDs(ProviderConfig(NoConfig))[i] EXCEPT !.type = "local"]]
    /\ last = NoLast

\* the values a field of the data type holds (a field without dataType is
\* taken for a number field)
FieldValues(dataType) ==
    IF dataType = Some("string") THEN StringValues ELSE NumberValues
\* a local instance whose source array was installed with setSourceItems and
\* has not been sorted
InitSort ==
    /\ IdleProvider
    /\ IdlePage
    /\ IdleQuery
    /\ IdleRemote
    /\ IdleFactory
    /\ IdleApp
    /\ IdleLocal
    /\ IdleShare
    /\ sortLast = NoSortLast
    /\ \E dataType \in {Undefined, Some("number"), Some("string")},
          defaultDir \in {"asc", "desc"}, n \in 0..MaxItems :
          \E vals \in [1..n -> FieldValues(dataType) \cup {Null}] :
              sortDs = [NoSortDs EXCEPT
                           !.dataType = dataType,
                           !.defaultDir = defaultDir,
                           !.sourceItems = [k \in 1..n |-> Item(k, vals[k])]]

NextSort == ChangeSort
SpecSort == InitSort /\ [][NextSort]_vars

\* ds.state.queryString = this.toQueryStringEncoded(filters)
EncodeFilters ==
    /\ ~queried
    /\ queryString' = ToQueryStringEncoded(queryFilters)
    /\ queried' = TRUE
    /\ UNCHANGED <<queryFilters, applied, exceptQuery>>

\* a fetch about to encode a filters object, or no object
InitQuery ==
    /\ IdleProvider
    /\ IdlePage
    /\ IdleSort
    /\ IdleRemote
    /\ IdleFactory
    /\ IdleApp
    /\ IdleLocal
    /\ IdleShare
    /\ queryFilters \in {<<>>} \cup {<<obj>> : obj \in FilterObjects}
    /\ queryString = <<>>
    /\ queried = FALSE
    /\ applied = NoApplied

NextQuery == EncodeFilters
SpecQuery == InitQuery /\ [][NextQuery]_vars

\* a callback that runs the handler of onStateChanged itself
SaveWithoutEmit(r, i, sto, caches, map, dss, path, t, fail1, fail2) ==
    StateChangedHandler(i, sto, caches, map, dss, path, t, fail1, fail2)
\* ds.onStateChanged.emit('DataLoaded') in the callback
EmitStateChanged(r, i, sto, caches, map, dss, path, t, fail1, fail2) ==
    IF Emits(r)
    THEN StateChangedHandler(i, sto, caches, map, dss, path, t, fail1, fail2)
    ELSE NotSaved(sto, caches, map)

\* _getDataFromRemote(ds): onDataLoading is emitted, the query string is
\* encoded, isLoading is set and httpGet or httpPost is invoked with a callback
GetDataFromRemote(r, op) ==
    /\ notified.transport < MaxRequests
    /\ remote' = Fetching(r, subscriber)
    /\ seen' = FetchSeen(r, subscriber)
    /\ inflight' = inflight \cup {notified.transport + 1}
    /\ notified' = [notified EXCEPT !.onDataLoading = @ + 1, !.transport = @ + 1]
    /\ remoteLast' = [NoRemoteLast EXCEPT
                         !.op = op, !.req = notified.transport + 1,
                         !.routing = RoutesSort(ds[1]), !.fetched = TRUE,
                         !.dataRequested = EmitsDataRequested(op)]
    /\ UNCHANGED fired

\* this.navigate(ds.getFilters()); requested: onNavigateRequested was emitted
\* and its handler is what called navigate
NavigateTo(r, op, requested) ==
    /\ notified.navigate < MaxNavigations
    /\ remote' = r
    /\ notified' = [notified EXCEPT
                       !.navigate = @ + 1,
                       !.onNavigateRequested = IF requested THEN @ + 1 ELSE @]
    /\ remoteLast' = [NoRemoteLast EXCEPT
                         !.op = op, !.routing = TRUE, !.navigated = TRUE,
                         !.requested = requested]
    /\ seen' = <<>>
    /\ UNCHANGED <<inflight, fired>>

\* ds.reload() / ds.loadPage(i) on the remote instance: onDataRequested, whose
\* handler fetches
RemoteReload ==
    \E i \in 0..MaxRemotePage :
        /\ ~remote.isDisposed
        /\ GetDataFromRemote([remote EXCEPT !.pageIndex = i],
                             IF i = remote.pageIndex THEN "reload" ELSE "loadPage")
        /\ UNCHANGED <<storage, dsCaches, cacheMap, ds, exceptRemote>>

\* ds.changeSort(fieldName, dir) on the remote instance: onSortChanged, whose
\* handler navigates when ds.config.useRouting === true and fetches otherwise
RemoteChangeSort ==
    \E dir \in {"asc", "desc"} :
        /\ ~remote.isDisposed
        /\ IF RoutesSort(ds[1])
           THEN NavigateTo([remote EXCEPT !.sort1Name = Some("Name"),
                                          !.sort1Dir = Some(dir)],
                           "changeSort", FALSE)
           ELSE GetDataFromRemote([remote EXCEPT !.sort1Name = Some("Name"),
                                                 !.sort1Dir = Some(dir)],
                                  "changeSort")
        /\ UNCHANGED <<storage, dsCaches, cacheMap, ds, exceptRemote>>

\* ds.search(): the page index is reset; with useRouting onNavigateRequested is
\* emitted, whose handler navigates; otherwise the instance reloads
RemoteSearch ==
    /\ ~remote.isDisposed
    /\ IF ds[1].useRouting
       THEN NavigateTo([remote EXCEPT !.pageIndex = 0], "search", TRUE)
       ELSE GetDataFromRemote([remote EXCEPT !.pageIndex = 0], "search")
    /\ UNCHANGED <<storage, dsCaches, cacheMap, ds, exceptRemote>>

\* the transport invokes the callback of a request in flight
TransportReplies ==
    \E req \in inflight, outcome \in Outcomes, fail1 \in BOOLEAN, fail2 \in BOOLEAN :
        /\ (fail2 => fail1)
        /\ (fail1 => (ds[1].saveState /\ Emits(remote)))
        /\ remote' = FetchCallback(remote, Result(req, outcome), req,
                                   notified.transport)
        /\ \E r \in {EmitStateChanged(remote, 1, storage, dsCaches, cacheMap, ds,
                                       pathname, now, fail1, fail2)} :
              /\ storage' = r.storage
              /\ dsCaches' = r.caches
              /\ cacheMap' = r.map
              /\ remoteLast' = [NoRemoteLast EXCEPT
                                   !.op = "callback", !.req = req,
                                   !.routing = RoutesSort(ds[1]),
                                   !.late = remote.isDisposed,
                                   !.threw = r.threw]
        /\ notified' = [notified EXCEPT
                           !.onDataLoaded = IF Emits(remote) THEN @ + 1 ELSE @]
        /\ fired' = Append(fired, [req |-> req, outcome |-> outcome])
        /\ seen' = CallbackSeen(remote, subscriber, Result(req, outcome))
        /\ inflight' = inflight \ {req}
        /\ UNCHANGED <<ds, exceptRemote>>

\* ds.dispose()
RemoteDispose ==
    /\ ~remote.isDisposed
    /\ remote' = Disposed(remote)
    /\ remoteLast' = [NoRemoteLast EXCEPT !.op = "dispose",
                                          !.routing = RoutesSort(ds[1])]
    /\ seen' = <<>>
    /\ UNCHANGED <<inflight, fired, notified, storage, dsCaches, cacheMap, ds,
                   exceptRemote>>

\* the application writes ds.config.useRouting = true
SetUseRouting ==
    /\ ~ds[1].useRouting
    /\ ~remote.isDisposed
    /\ ds' = [ds EXCEPT ![1].useRouting = TRUE]
    /\ UNCHANGED <<remoteVars, storage, dsCaches, cacheMap, exceptRemote>>

\* the configurations of the provider and of the instance: saveState or
\* useRouting asked of the provider, useRouting asked for the instance
RemoteConfigs ==
    {<<SaveStateOn, NoConfig>>,
     <<[SaveStateOn EXCEPT !.useRouting = Some(TRUE)], NoConfig>>,
     <<NoConfig, [NoConfig EXCEPT !.useRouting = Some(TRUE)]>>}
\* a provider constructed over an empty storage and a remote instance got from
\* getRemoteDataSource(url, id, instConfig), with the application's handlers
InitRemoteWith(configPairs, subscribers) ==
    /\ now = Now0
    /\ ticks = 0
    /\ pathname = "/p"
    /\ storage = Absent
    /\ constructed = TRUE
    /\ dsCaches = <<>>
    /\ cacheMap = EmptyMap
    /\ \E configs \in configPairs :
          /\ ldsConfig = configs[1]
          /\ instConfig = configs[2]
    /\ ds = InitDs(InstanceConfig(ProviderConfig(ldsConfig), instConfig))
    /\ last = NoLast
    /\ IdlePage
    /\ IdleSort
    /\ IdleQuery
    /\ IdleFactory
    /\ IdleLocal
    /\ IdleShare
    /\ subscriber \in subscribers
    /\ remote = NoRemote
    /\ inflight = {}
    /\ fired = <<>>
    /\ notified = NoNotified
    /\ remoteLast = NoRemoteLast
    /\ seen = <<>>
InitRemote == InitRemoteWith(RemoteConfigs, {"none"})

NextRemote ==
    \/ RemoteReload
    \/ RemoteChangeSort
    \/ RemoteSearch
    \/ TransportReplies
    \/ RemoteDispose
    \/ SetUseRouting
SpecRemote == InitRemote /\ [][NextRemote]_vars

\* the same instance without saveState, with handlers of the application that
\* change the filters of onDataLoading
InitFetch == InitRemoteWith({<<NoConfig, NoConfig>>}, {"addsKey", "setsPage"})
SpecFetch == InitFetch /\ [][NextRemote]_vars
\* reloads, sort changes, callbacks and dispose on an instance that a handler
\* watches; every callback the transport was given is invoked in the end
InitLive == InitRemoteWith({<<NoConfig, NoConfig>>}, {"observer"})
NextLive ==
    \/ RemoteReload
    \/ RemoteChangeSort
    \/ TransportReplies
    \/ RemoteDispose
SpecFetchLive == InitLive /\ [][NextLive]_vars /\ WF_vars(TransportReplies)

(* ------------------------------------------------------------------ *)
(* The cache store: claims                                              *)
(* ------------------------------------------------------------------ *)
\* what reading the state / the filters of an entry in memory gives
EntryView(e, dss) == <<StateNow(e, dss), FiltersNow(e, dss)>>

\* C1: the store never holds more than MAX_CACHE_SIZE (50) entries; a save of a
\* new key into a store of 50 evicts down to 40 before the push and the store
\* holds 41 after it (and still does when the save returns after a successful
\* write).
C1_CacheBound ==
    /\ Len(dsCaches) <= MAX_CACHE_SIZE
    /\ (last.op = "save" /\ last.isNew /\ last.sizeBefore = MAX_CACHE_SIZE) =>
          /\ last.evicted
          /\ last.sizeAtInsert = KEEP_NEWEST
          /\ last.sizeAfterInsert = KEEP_NEWEST + 1
          /\ (~last.failed => Len(dsCaches) = KEEP_NEWEST + 1)
C1_Witness ==
    /\ last.op = "save" /\ last.isNew /\ last.sizeBefore = MAX_CACHE_SIZE
    /\ ~last.failed
    /\ Len(dsCaches) = KEEP_NEWEST + 1

\* C2: no two entries of the store have the same key id + '|' + pathName.
C2_UniqueKeys ==
    \A i, j \in 1..Len(dsCaches) :
        i # j => EntryKey(dsCaches[i]) # EntryKey(dsCaches[j])
C2_Witness ==
    /\ last.op = "save" /\ ~last.isNew
    /\ Len(dsCaches) >= 2

\* C3: after load() no entry dated more than CACHE_EXPIRATION_HOURS (168)
\* before the time of the load is in the array or behind a key of the index.
C3_NoExpiredAfterLoad ==
    last.op = "load" =>
        /\ \A j \in 1..Len(dsCaches) :
              /\ dsCaches[j].date.k = "iso"
              /\ last.at - dsCaches[j].date.t <= CACHE_EXPIRATION_HOURS
        /\ \A k \in DOMAIN cacheMap :
              \E j \in 1..Len(dsCaches) :
                  /\ dsCaches[j].oid = cacheMap[k]
                  /\ last.at - dsCaches[j].date.t <= CACHE_EXPIRATION_HOURS
C3_Witness ==
    /\ last.op = "load" /\ last.readOk
    /\ \E x \in 1..Len(last.input.items) :
          LET c == last.input.items[x]
          IN c.date.k = "iso" /\ last.at - c.date.t > CACHE_EXPIRATION_HOURS
    /\ dsCaches # <<>>

\* C4: load() drops the offending entries only: of a persisted array that was
\* read, every element lacking id, pathName or state is absent afterwards and
\* every other element that is not expired is present.
LacksRequired(c) ==
    c.null \/ ~Truthy(c.id) \/ ~Truthy(c.pathName) \/ c.state.k = "none"
PresentAfterLoad(c) ==
    \E j \in 1..Len(dsCaches) : ToJson(dsCaches[j], ds) = c
C4_LoadDropsOffendingOnly ==
    (last.op = "load" /\ last.readOk /\ last.input.kind = "array") =>
        \A x \in 1..Len(last.input.items) :
            LET c == last.input.items[x]
            IN /\ LacksRequired(c) => ~PresentAfterLoad(c)
               /\ (~LacksRequired(c) /\ IsCacheValid(c, last.at)) => PresentAfterLoad(c)

\* C5: no failure of the storage leaves the constructor, a save or
\* clearStorage as an exception.
C5_NoStorageFailurePropagates ==
    last.op \in {"load", "save", "clear"} => ~last.threw
C5_Witness ==
    /\ last.op = "clear" /\ last.failed
    /\ ~last.threw

\* C6: a save writes once; when that write fails, eviction runs again and the
\* write is tried exactly once more, whatever its outcome.
C6_RetryOnce ==
    last.op = "save" =>
        /\ last.writes \in {1, 2}
        /\ ~last.failed => (last.writes = 1 /\ ~last.cleanedAgain /\ last.saved)
        /\ last.failed =>
              /\ last.writes = 2
              /\ last.cleanedAgain
              /\ Len(dsCaches) = Min(KEEP_NEWEST, last.sizeAfterInsert)
C6_Witness ==
    /\ last.op = "save" /\ last.failed /\ ~last.saved
    /\ last.sizeAfterInsert > KEEP_NEWEST
    /\ Len(dsCaches) = KEEP_NEWEST

\* C7: after clearStorage() the persisted value, the entry array and the key
\* index are empty, also when the storage fails.
C7_ClearEmptiesBoth ==
    last.op = "clear" =>
        /\ storage = Absent
        /\ dsCaches = <<>>
        /\ cacheMap = EmptyMap

\* C8: an entry in memory is a snapshot: a step that changes the state or the
\* filters of an instance and saves nothing leaves what every entry in memory
\* holds as its state and filters unchanged.
C8_SnapshotCopy ==
    [][(ds' # ds /\ dsCaches' = dsCaches) =>
          \A j \in 1..Len(dsCaches) :
              EntryView(dsCaches'[j], ds') = EntryView(dsCaches[j], ds)]_vars

(* ------------------------------------------------------------------ *)
(* Windowing: claims                                                    *)
(* ------------------------------------------------------------------ *)
\* getPageItemsLocally has run on a pagination the claims speak of
Windowed ==
    /\ lastPage.op # "none"
    /\ lastPage.input.pagination.startItemIndex >= 0
    /\ lastPage.input.pagination.pageSize > 0
    /\ lastPage.input.totalItemCount >= 0

\* C9, as stated: for all startItemIndex >= 0, pageSize > 0 and
\* totalItemCount >= 0, when getPageItemsLocally returns the pagination has
\* startItemIndex >= 0 and endItemIndex - startItemIndex <= pageSize.
C9_WindowingBound ==
    Windowed =>
        /\ lastPage.atReturn.pagination.startItemIndex >= 0
        /\ lastPage.atReturn.pagination.endItemIndex
              - lastPage.atReturn.pagination.startItemIndex
                 <= lastPage.atReturn.pagination.pageSize

\* C9, amended: the bound holds when the source is longer than a page
\* (pageSize < totalItemCount), and then endItemIndex is startItemIndex +
\* pageSize; otherwise the full source is returned and the pagination is left
\* as it was.
C9_WindowingBoundWhenPaged ==
    Windowed =>
        IF lastPage.input.pagination.pageSize < lastPage.input.totalItemCount
        THEN /\ lastPage.atReturn.pagination.startItemIndex >= 0
             /\ lastPage.atReturn.pagination.endItemIndex
                   - lastPage.atReturn.pagination.startItemIndex
                      = lastPage.atReturn.pagination.pageSize
             /\ lastPage.atReturn.pagination.pageSize
                   = lastPage.input.pagination.pageSize
        ELSE lastPage.atReturn = lastPage.input
C9_Witness ==
    /\ Windowed
    /\ lastPage.input.pagination.pageSize < lastPage.input.totalItemCount
    /\ lastPage.input.pagination.endItemIndex
          - lastPage.input.pagination.startItemIndex
             > lastPage.input.pagination.pageSize
    /\ lastPage.atReturn.pagination.startItemIndex
          < lastPage.input.pagination.startItemIndex

\* C10: loading the last page (index ceil(N / p) - 1) of a local instance with
\* N source items and page size p < N, p not dividing N, installs exactly the
\* N mod p trailing items, each with its row number (index + 1); with N = 101
\* and p = 10, loadPage(10) installs the one item of index 100 with row 101.
C10_LastPageRemainder ==
    (/\ lastPage.op = "loadPage"
     /\ lastPage.input.pagination.pageSize < Len(sourceItems)
     /\ lastPage.input.totalItemCount = Len(sourceItems)
     /\ Len(sourceItems) % lastPage.input.pagination.pageSize # 0
     /\ lastPage.page
           = CeilDiv(Len(sourceItems), lastPage.input.pagination.pageSize) - 1)
        => /\ Len(dsItems) = Len(sourceItems) % lastPage.input.pagination.pageSize
           /\ \A k \in 1..Len(dsItems) :
                 /\ dsItems[k] = Len(sourceItems) - Len(dsItems) + k - 1
                 /\ sourceItems[dsItems[k] + 1] = dsItems[k] + 1

(* ------------------------------------------------------------------ *)
(* Configuration: claims                                                *)
(* ------------------------------------------------------------------ *)
\* C18: the storage the cache is read from, written to and removed from is
\* the one named by the configuration the provider was constructed with.
C18_BackendSelected ==
    (last.op \in {"load", "save", "clear"} /\ ldsConfig.storage # Undefined)
        => last.backend = ldsConfig.storage[1]

\* C19: an emission of onStateChanged writes a snapshot exactly when the
\* instance's config.saveState is true: it then writes and the store holds the
\* entry of the instance; otherwise it changes nothing; and while no instance
\* has saveState, no step but the constructor's load and clearStorage changes
\* the store, the index or the persisted value.
C19_SavesIffSaveState ==
    [][/\ (last'.op = "emit" =>
              /\ ~ds[last'.ds].saveState
              /\ UNCHANGED <<dsCaches, cacheMap, storage>>)
       /\ ((last'.op = "save" /\ last' # last) =>
              /\ ds[last'.ds].saveState
              /\ last'.writes >= 1
              /\ GetCacheKey(ds[last'.ds].id, pathname) \in DOMAIN cacheMap')
       /\ (((\A i \in DsIndex : ~ds[i].saveState)
               /\ last'.op \notin {"load", "clear"}) =>
              UNCHANGED <<dsCaches, cacheMap, storage>>)]_vars
C19_Witness ==
    /\ last.op = "emit"
    /\ ~ds[last.ds].saveState
    /\ Len(dsCaches) = 1
    /\ storage = JsonArray(BaseArray(1))

(* ------------------------------------------------------------------ *)
(* Local sort: claims                                                   *)
(* ------------------------------------------------------------------ *)
\* the last changeSort ran a sort
SortRan ==
    /\ sortLast.op = "changeSort"
    /\ sortDs.sortCalls = sortLast.before.sortCalls + 1
\* the place of a value in the order of its type: the number itself, or the
\* place of the string in the locale's collation
ValueRank(v) ==
    IF sortDs.dataType = Some("string") THEN LocaleRank(v[1]) ELSE v[1]
InDirection(x, y) ==
    IF sortDs.sort1Dir = Some("desc")
    THEN ValueRank(x) >= ValueRank(y)
    ELSE ValueRank(x) <= ValueRank(y)

\* C11: after a local sort (number or string field, asc or desc) the source
\* array holds the same items, every item whose sort field is null or undefined
\* comes after every item with a value, and the valued items are in ascending
\* (asc) or descending (desc) order.
C11_NullsLastValuesOrdered ==
    SortRan =>
        /\ Len(sortDs.sourceItems) = Len(sortLast.before.sourceItems)
        /\ {sortDs.sourceItems[k] : k \in 1..Len(sortDs.sourceItems)}
              = {sortLast.before.sourceItems[k] :
                    k \in 1..Len(sortLast.before.sourceItems)}
        /\ \A i, j \in 1..Len(sortDs.sourceItems) :
              i < j =>
                 /\ sortDs.sourceItems[i].val = Null
                       => sortDs.sourceItems[j].val = Null
                 /\ (sortDs.sourceItems[i].val # Null
                        /\ sortDs.sourceItems[j].val # Null)
                       => InDirection(sortDs.sourceItems[i].val,
                                      sortDs.sourceItems[j].val)
\* a string field sorted desc whose array began with a null and had its values
\* in ascending order
C11_Witness ==
    /\ SortRan
    /\ sortDs.dataType = Some("string")
    /\ sortDs.sort1Dir = Some("desc")
    /\ Len(sortDs.sourceItems) = 3
    /\ sortLast.before.sourceItems[1].val = Null
    /\ sortLast.before.sourceItems[2].val = Some("a")
    /\ sortLast.before.sourceItems[3].val = Some("B")
    /\ sortDs.sourceItems[1].val = Some("B")
    /\ sortDs.sourceItems[3].val = Null
\* the same for a number field sorted asc
C11_WitnessNumber ==
    /\ SortRan
    /\ sortDs.dataType = Some("number")
    /\ sortDs.sort1Dir = Some("asc")
    /\ Len(sortDs.sourceItems) = 3
    /\ sortLast.before.sourceItems[1].val = Null
    /\ sortLast.before.sourceItems[2].val = Some(2)
    /\ sortLast.before.sourceItems[3].val = Some(0 - 1)
    /\ sortDs.sourceItems[1].val = Some(0 - 1)
    /\ sortDs.sourceItems[3].val = Null

\* C12: a sort request whose "field dir" equals appliedSortName runs no sort
\* and leaves sourceItems and appliedSortName as they are; so the second of
\* two consecutive changeSort('Name', 'asc') calls sorts nothing.
C12_ResortIdempotent ==
    [][(sortLast'.op = "changeSort" /\ sortLast'.before = sortDs) =>
          /\ (sortDs.appliedSortName
                 = Some(SortName(sortLast'.field, sortDs'.sort1Dir[1])))
                => /\ sortDs'.sortCalls = sortDs.sortCalls
                   /\ sortDs'.sourceItems = sortDs.sourceItems
                   /\ sortDs'.appliedSortName = sortDs.appliedSortName
          /\ (/\ sortLast.op = "changeSort"
              /\ sortLast.field = "Name" /\ sortLast.dir = Some("asc")
              /\ sortLast'.field = "Name" /\ sortLast'.dir = Some("asc"))
                => /\ sortDs'.sortCalls = sortDs.sortCalls
                   /\ sortDs'.sourceItems = sortDs.sourceItems
                   /\ sortDs'.appliedSortName = Some("Name asc")]_vars
\* changeSort('Name', 'asc') was called twice on an array with two nulls
\* (which a second sort would swap) and one sort ran
C12_Witness ==
    /\ sortLast.op = "changeSort"
    /\ sortLast.field = "Name" /\ sortLast.dir = Some("asc")
    /\ sortLast.before.appliedSortName = Some("Name asc")
    /\ sortLast.before.sortCalls = 1
    /\ sortDs.sortCalls = 1
    /\ sortDs.appliedSortName = Some("Name asc")
    /\ Len(sortDs.sourceItems) >= 2
    /\ sortDs.sourceItems[Len(sortDs.sourceItems)].val = Null
    /\ sortDs.sourceItems[Len(sortDs.sourceItems) - 1].val = Null

(* ------------------------------------------------------------------ *)
(* Query string: claims                                                 *)
(* ------------------------------------------------------------------ *)
\* What a server reads from a query string: the text is cut at every '&', each
\* part at its first '=', and the escapes of the value are decoded.
RECURSIVE IndexOf(_, _, _)
IndexOf(chars, c, from) ==
    IF from > Len(chars) THEN 0
    ELSE IF chars[from] = c THEN from ELSE IndexOf(chars, c, from + 1)
RECURSIVE SplitAt(_, _)
SplitAt(chars, c) ==
    IF IndexOf(chars, c, 1) = 0 THEN <<chars>>
    ELSE <<SubSeq(chars, 1, IndexOf(chars, c, 1) - 1)>>
            \o SplitAt(SubSeq(chars, IndexOf(chars, c, 1) + 1, Len(chars)), c)
DecodeEscape(h, l) ==
    CASE <<h, l>> = <<"2", "0">> -> " "
      [] <<h, l>> = <<"2", "6">> -> "&"
      [] <<h, l>> = <<"3", "D">> -> "="
      [] <<h, l>> = <<"2", "5">> -> "%"
      [] OTHER -> "?"
RECURSIVE DecodeURIComponent(_)
DecodeURIComponent(chars) ==
    IF chars = <<>> THEN <<>>
    ELSE IF chars[1] = "%" /\ Len(chars) >= 3
         THEN <<DecodeEscape(chars[2], chars[3])>>
                 \o DecodeURIComponent(SubSeq(chars, 4, Len(chars)))
         ELSE <<chars[1]>> \o DecodeURIComponent(Tail(chars))
ParsePair(part) ==
    IF IndexOf(part, "=", 1) = 0 THEN [key |-> part, chars |-> <<"no value">>]
    ELSE [key |-> SubSeq(part, 1, IndexOf(part, "=", 1) - 1),
          chars |-> DecodeURIComponent(
                        SubSeq(part, IndexOf(part, "=", 1) + 1, Len(part)))]
ParseQuery(chars) ==
    IF chars = <<>> THEN <<>>
    ELSE [k \in 1..Len(SplitAt(chars, "&")) |-> ParsePair(SplitAt(chars, "&")[k])]
\* the properties of the object whose value is not null, undefined or '', in
\* key order, each with its value as a string
RECURSIVE KeptPairs(_)
KeptPairs(obj) ==
    IF obj = <<>> THEN <<>>
    ELSE IF \/ obj[1].value.type \in {"null", "undefined"}
            \/ obj[1].value = Value("string", <<>>)
         THEN KeptPairs(Tail(obj))
         ELSE <<[key |-> <<obj[1].key>>, chars |-> obj[1].value.chars]>>
                 \o KeptPairs(Tail(obj))

\* C20: the encoded query string holds a pair key=urlEncode(value) for exactly
\* the keys of the filters object whose value is not null, undefined or the
\* empty string (0 and false are kept), joined by '&' in key order: read back,
\* it gives those keys with those values, and it is empty for no object.
C20_QueryStringPairs ==
    queried =>
        IF queryFilters = <<>> THEN queryString = <<>>
        ELSE ParseQuery(queryString) = KeptPairs(queryFilters[1])
\* an object with a value that needs escaping, a 0 and a null
C20_Witness ==
    /\ queried
    /\ queryFilters # <<>>
    /\ Len(queryFilters[1]) = 3
    /\ queryFilters[1][1].value = Value("string", <<"x", "&", "y">>)
    /\ queryFilters[1][2].value = Value("null", <<>>)
    /\ queryFilters[1][3].value = Value("number", <<"0">>)
    /\ queryString = <<queryFilters[1][1].key, "=", "x", "%", "2", "6", "y", "&",
                       queryFilters[1][3].key, "=", "0">>

(* ------------------------------------------------------------------ *)
(* Remote fetch: claims                                                 *)
(* ------------------------------------------------------------------ *)
\* the callback that fired last
LastFired == fired[Len(fired)]
\* the last operation was the callback of a live instance
CallbackRan ==
    /\ fired # <<>>
    /\ remoteLast.op = "callback"
    /\ ~remoteLast.late

\* C13: when the transport reports failure for a remote fetch, the instance
\* ends not loading with items = [] and total = 0 and with its sort and
\* pagination state cleared.
C13_FailureClearsState ==
    (CallbackRan /\ LastFired.outcome \in {"httpError", "errorFlag"}) =>
        /\ ~remote.isLoading
        /\ remote.items = <<>>
        /\ remote.total = 0
        /\ remote.sort1Name = Undefined
        /\ remote.sort1Dir = Undefined
        /\ remote.pageIndex = 0

\* C14: the items and the total of a live remote instance are those of the
\* callback that fired last, whatever the order in which the requests were
\* issued.
C14_LastCallbackWins ==
    (fired # <<>> /\ ~remote.isDisposed) =>
        /\ remote.items = Result(LastFired.req, LastFired.outcome).items
        /\ remote.total = Result(LastFired.req, LastFired.outcome).total
\* two requests were in flight at once, the second was answered first, and the
\* instance shows the answer to the first
C14_Witness ==
    /\ Len(fired) = 2
    /\ fired[1] = [req |-> 2, outcome |-> "ok"]
    /\ fired[2] = [req |-> 1, outcome |-> "ok"]
    /\ ~remote.isDisposed
    /\ remote.items = Payload(1)
    /\ remote.total = 1

C16_SortChangeRoutes ==
    remoteLast.op = "changeSort" =>
        IF remoteLast.routing
        THEN remoteLast.requested /\ ~remoteLast.fetched
        ELSE remoteLast.fetched /\ ~remoteLast.navigated

\* C17: an instance created with a per-instance config {useRouting: true}, or
\* by a provider constructed with useRouting: true, has routing enabled: its
\* sort changes go to the navigator and not to the transport.
C17_ConfiguredRouting ==
    (/\ remoteLast.op = "changeSort"
     /\ (instConfig.useRouting = Some(TRUE) \/ ldsConfig.useRouting = Some(TRUE)))
        => (remoteLast.navigated /\ ~remoteLast.fetched)

(* ------------------------------------------------------------------ *)
(* Cache store: saves of an existing key, eviction, unparsable values    *)
(* ------------------------------------------------------------------ *)
\* the key of the instance the step saves
SavedKey == GetCacheKey(ds[last'.ds].id, pathname)
\* the step is a save of a key the index already has
SavesExistingKey ==
    /\ last'.op = "save"
    /\ ~last'.isNew
    /\ <<last, dsCaches, storage>>' # <<last, dsCaches, storage>>
\* the store has the entries it had, where they were, but for the saved one
UpdatedInPlace ==
    /\ Len(dsCaches') = Len(dsCaches)
    /\ DOMAIN cacheMap' = DOMAIN cacheMap
    /\ \A j \in 1..Len(dsCaches) :
          /\ EntryKey(dsCaches'[j]) = EntryKey(dsCaches[j])
          /\ EntryKey(dsCaches[j]) # SavedKey => dsCaches'[j] = dsCaches[j]
    /\ ~last'.evicted

Dropped == {j \in 1..Len(dsCaches) : EntryKey(dsCaches[j]) \notin DOMAIN cacheMap'}
\* C29: eviction keeps the 40 entries with the newest date and drops all
\* others: every entry kept is dated no earlier than any entry dropped, and
\* the store holds min(40, previous size) entries (and then the pushed one,
\* when the eviction ran before a push).
C29_EvictionKeepsNewest ==
    [][(/\ last'.op = "save"
        /\ last'.evicted \/ last'.cleanedAgain
        /\ <<last, dsCaches>>' # <<last, dsCaches>>) =>
          /\ \A k \in 1..Len(dsCaches'), d \in Dropped :
                DateTime(dsCaches'[k]) >= DateTime(dsCaches[d])
          /\ last'.cleanedAgain =>
                Len(dsCaches') = Min(KEEP_NEWEST, last'.sizeAfterInsert)
          /\ (last'.evicted /\ ~last'.cleanedAgain) =>
                /\ Len(dsCaches') = Min(KEEP_NEWEST, Len(dsCaches)) + 1
                /\ Cardinality(Dropped) = Len(dsCaches) - KEEP_NEWEST]_vars
\* a new key came to a store of 50 entries: 40 of them and the new one are left
C29_Witness ==
    /\ last.op = "save" /\ last.isNew /\ last.evicted /\ ~last.cleanedAgain
    /\ last.sizeBefore = MAX_CACHE_SIZE
    /\ Len(dsCaches) = KEEP_NEWEST + 1

\* the constructor read a persisted value that JSON.parse rejects
LoadedUnparsable ==
    /\ last.op = "load"
    /\ last.readOk
    /\ last.input = Garbage
\* C30: when the persisted value cannot be parsed as JSON, load() ends with an
\* empty store and an empty index and removes the persisted value, and the
\* provider is constructed without an exception.
C30_UnparsableWiped ==
    LoadedUnparsable =>
        /\ dsCaches = <<>>
        /\ cacheMap = EmptyMap
        /\ storage = Absent
        /\ constructed
        /\ ~last.threw
\* C30, amended: the persisted value is removed when removeItem does not
\* throw; when it throws the value stays, and the rest holds all the same.
C30_UnparsableReset ==
    LoadedUnparsable =>
        /\ dsCaches = <<>>
        /\ cacheMap = EmptyMap
        /\ ~last.failed => storage = Absent
        /\ last.failed => storage = Garbage
        /\ constructed
        /\ ~last.threw
C30_Witness ==
    /\ LoadedUnparsable
    /\ ~last.failed
    /\ storage = Absent
    /\ constructed

(* ------------------------------------------------------------------ *)
(* The factory methods                                                   *)
(* ------------------------------------------------------------------ *)
MaxIds == 3
MaxMade == 2
\* the dataSourceId argument: omitted, or one of the ids
IdInputs == {Undefined} \cup {Some(DsId(i)) : i \in 1..MaxIds}
\* location.href of the page at the path
Href(path) == "http://h" \o path

\* const cache = this._getCacheById(dataSourceId || '', location.pathname):
\* the oid of the entry, 0 for undefined
CacheOf(map, arg, path) ==
    GetCacheById(map, IF arg = Undefined THEN "" ELSE arg[1], path)

\* if (!dataSourceId) { dataSourceId = location.href; }
IdOrHref(arg, path) ==
    IF arg = Undefined \/ arg[1] = "" THEN Href(path) ELSE arg[1]

\* createNewRemoteDataSource / createNewLocalDataSource: the configuration of
\* the provider with the caller's copied over it, new ListDataSource(id, type,
\* ldsConfig, cache)
CreateNewDataSource(type, arg, path, config) ==
    [id |-> IdOrHref(arg, path), type |-> type,
     saveState |-> config.saveState, useRouting |-> config.useRouting,
     state |-> 0, filters |-> 0]

\* a factory call makes instance i; cache is what it passes to the constructor
Make(method, i, type, arg, cache) ==
    /\ constructed
    /\ made.count < MaxMade
    /\ ds' = [ds EXCEPT ![i] =
                 CreateNewDataSource(type, arg, pathname,
                     InstanceConfig(ProviderConfig(ldsConfig), instConfig))]
    /\ made' = [method |-> method, type |-> type, arg |-> arg, ds |-> i,
                path |-> pathname, cache |-> cache, count |-> made.count + 1]
    /\ UNCHANGED <<now, ticks, pathname, storage, constructed, dsCaches, cacheMap,
                   last, pageVars, configVars, sortVars, queryVars, remoteVars,
                   appVars, localVars, shareVars>>

\* getLocalDataSource(items, dataSourceId, config) / getRemoteDataSource(url,
\* dataSourceId, config)
GetDataSource ==
    \E i \in DsIndex, type \in {"local", "remote"}, arg \in IdInputs :
        Make("get", i, type, arg, CacheOf(cacheMap, arg, pathname))

\* newLocalDataSource(items, dataSourceId, config) / newRemoteDataSource(url,
\* dataSourceId, config): createNew...DataSource without the cache argument
NewDataSource ==
    \E i \in DsIndex, type \in {"local", "remote"}, arg \in IdInputs :
        Make("new", i, type, arg, 0)

\* a first session: nothing is stored, the entries are those the instances save
InitFactory == InitWith({Absent}, {SaveStateOn}, {NoConfig})
NextFactory ==
    \/ Construct
    \/ GetDataSource
    \/ NewDataSource
    \/ OnStateChanged
    \/ Navigate
SpecFactory == InitFactory /\ [][NextFactory]_vars

\* the entries the store holds under the id the call was given and the path
\* of the page
StoredUnder(arg, path) ==
    {j \in 1..Len(dsCaches) :
        dsCaches[j].id = arg /\ dsCaches[j].pathName = Some(path)}
\* C27: getRemoteDataSource and getLocalDataSource called with id I on path P
\* hand the new instance the entry stored under (I, P) when there is one and
\* no entry otherwise; newRemoteDataSource and newLocalDataSource hand none.
C27_FactorySeeds ==
    [][made'.count # made.count =>
          /\ made'.method = "new" => made'.cache = 0
          /\ (made'.method = "get" /\ made'.arg # Undefined) =>
                IF StoredUnder(made'.arg, pathname) = {}
                THEN made'.cache = 0
                ELSE made'.cache \in
                        {dsCaches[j].oid : j \in StoredUnder(made'.arg, pathname)}]_vars

(* ------------------------------------------------------------------ *)
(* Remote fetch: the order of the steps                                  *)
(* ------------------------------------------------------------------ *)
\* the step invokes the transport
TransportInvoked == notified'.transport # notified.transport
\* the step is a callback on an instance that is not disposed
CallbackStep == fired' # fired /\ ~remote.isDisposed

\* C22: in a remote fetch onDataLoading(filters) is emitted before the query
\* string is encoded and before the transport is invoked: the handler sees the
\* query string of the fetch before, what it changes of the filters object in
\* place is in state.queryString and in the body the transport is given, and
\* isLoading is true when the transport is invoked.
C22_LoadingBeforeEncodeAndTransport ==
    [][TransportInvoked =>
          /\ Len(seen') = 2
          /\ seen'[1].at = "onDataLoading"
          /\ seen'[1].queryString = remote.queryString
          /\ seen'[2].at = "transport"
          /\ seen'[2].payload = HandlerMutates(subscriber, seen'[1].payload)
          /\ seen'[2].queryString = ToQueryStringEncoded(<<seen'[2].payload>>)
          /\ remote'.queryString = seen'[2].queryString
          /\ seen'[2].isLoading]_vars
\* a handler changed the filters object and the fetch went out with the change
C22_Witness ==
    /\ remoteLast.fetched
    /\ Len(seen) = 2
    /\ seen[2].payload # seen[1].payload
    /\ remote.queryString # ToQueryStringEncoded(<<seen[1].payload>>)
    /\ remote.isLoading

\* C23: on a transport callback onDataLoaded(result) is emitted, then setData
\* installs the items, then onStateChanged('DataLoaded') is emitted, then
\* isLoading becomes false, and only then a result with an error flag clears
\* the sort and pagination state.
C23_CallbackOrder ==
    [][CallbackStep =>
          LET result == Result(fired'[Len(fired')].req, fired'[Len(fired')].outcome)
          IN /\ Len(seen') = 2
             /\ seen'[1].at = "onDataLoaded"
             /\ seen'[1].items = remote.items
             /\ seen'[1].total = remote.total
             /\ seen'[1].isLoading = remote.isLoading
             /\ seen'[2].at = "onStateChanged"
             /\ seen'[2].items = result.items
             /\ seen'[2].total = result.total
             /\ seen'[2].isLoading = remote.isLoading
             /\ seen'[2].sort1Name = remote.sort1Name
             /\ seen'[2].pageIndex = remote.pageIndex
             /\ ~remote'.isLoading
             /\ remote'.items = result.items
             /\ result.error =>
                   /\ remote'.sort1Name = Undefined
                   /\ remote'.pageIndex = 0
             /\ ~result.error =>
                   /\ remote'.sort1Name = remote.sort1Name
                   /\ remote'.pageIndex = remote.pageIndex]_vars
\* a result with the error flag came to a sorted, loading instance that showed
\* a page: the handlers saw the old page, then the new one with the sort still
\* there, and the sort is cleared now
C23_Witness ==
    /\ remoteLast.op = "callback"
    /\ fired[Len(fired)].outcome = "errorFlag"
    /\ Len(seen) = 2
    /\ seen[1].items # <<>>
    /\ seen[2].items = <<>>
    /\ seen[2].isLoading
    /\ seen[2].sort1Name # Undefined
    /\ remote.sort1Name = Undefined
    /\ ~remote.isLoading

\* C25: a remote instance leaves Loading only through a transport callback:
\* isLoading stays true as long as no callback fires, and when every callback
\* that was issued fires in the end, isLoading is false in the end.
C25_LoadingUntilCallback ==
    /\ [][(remote.isLoading /\ ~remote'.isLoading) =>
             /\ fired' # fired
             /\ fired'[Len(fired')].req \in inflight]_vars
    /\ [][(remote.isLoading /\ fired' = fired) => remote'.isLoading]_vars
    /\ (remote.isLoading ~> ~remote.isLoading)
    /\ <>[](inflight = {} /\ ~remote.isLoading)
\* a callback ended the loading of an instance with nothing else in flight
C25_Witness ==
    /\ remoteLast.op = "callback"
    /\ Len(fired) = MaxRequests
    /\ inflight = {}
    /\ ~remote.isLoading

\* C26: for a remote instance the transport is invoked only as a reaction to
\* an onDataRequested emission: no other event or operation causes a
\* transport call.
C26_OnlyDataRequestedFetches ==
    [][TransportInvoked => remoteLast'.dataRequested]_vars
\* C26, amended: the transport is invoked by the handler of onDataRequested
\* and by the handler of onSortChanged when ds.config.useRouting is not true,
\* and by nothing else.
C26_DataRequestedOrSortFetches ==
    [][TransportInvoked =>
          \/ remoteLast'.dataRequested
          \/ remoteLast'.op = "changeSort" /\ ds[1].useRouting # TRUE]_vars
\* a sort change has invoked the transport
C26_Witness ==
    /\ remoteLast.op = "changeSort"
    /\ remoteLast.fetched
    /\ ~remoteLast.dataRequested
    /\ notified.transport > 0

(* ------------------------------------------------------------------ *)
(* Local wiring: sort, window, setItems, onStateChanged                  *)
(* ------------------------------------------------------------------ *)
\* the page sizes of the local instance, and the values of the sort field in
\* its source arrays: none, in disorder with a null, with a tie, with two
\* nulls, in order
LocalPageSizes == {2, 10}
LocalSources ==
    {<<>>,
     <<Some(2), Null, Some(0)>>,
     <<Some(2), Some(0), Some(0)>>,
     <<Null, Some(2), Null>>,
     <<Some(0), Some(2)>>}
\* what the local wiring leaves alone
exceptLocal == <<cacheVars, configVars, queryVars, remote, inflight, fired, notified,
                 remoteLast, factoryVars, appVars, shareVars>>

\* the ids of the items of an array
Ids(items) == [k \in 1..Len(items) |-> items[k].id]
\* where the array holds the item
PositionOf(id, items) == CHOOSE p \in 1..Len(items) : items[p].id = id
\* RowNumberLds is a property of the item: the numbers in the order the sorted
\* array has the items
RowsOf(after, before, rows) ==
    [p \in 1..Len(after) |-> rows[PositionOf(after[p].id, before)]]
\* getPageItemsLocally: the branch that returns ds.sourceItems itself
ReturnsSource(st) ==
    st.pagination.pageSize <= 0 \/ st.pagination.pageSize >= st.totalItemCount
\* ds.setItems(items): ds.items is the array given, or a copy of it
SetItems(loc, ids, isSource) ==
    [loc EXCEPT !.own = ~(isSource /\ loc.keeps),
                !.ids = IF isSource /\ loc.keeps THEN <<>> ELSE ids]
\* ds.items, item by item
PageItems(loc, d) == IF loc.own THEN loc.ids ELSE Ids(d.sourceItems)

\* a variant that takes the window before it sorts
WindowThenSort(d, st, rows, engine) ==
    [sorted |-> SortItemsLocally(d, d.sort1Name, engine),
     page |-> GetPageItemsLocally(st, RowsOf(SortItemsLocally(d, d.sort1Name,
                                        engine).sourceItems, d.sourceItems, rows)),
     from |-> d.sourceItems]
\* the handler of onDataRequested of a local instance up to setItems:
\* sortItemsLocally(ds, ds.state.sort1Name), then getPageItemsLocally(ds) on
\* the array as sorted
SortThenWindow(d, st, rows, engine) ==
    [sorted |-> SortItemsLocally(d, d.sort1Name, engine),
     page |-> GetPageItemsLocally(st, RowsOf(SortItemsLocally(d, d.sort1Name,
                                        engine).sourceItems, d.sourceItems, rows)),
     from |-> SortItemsLocally(d, d.sort1Name, engine).sourceItems]
\* the items of the window
WindowOf(r) == [k \in 1..Len(r.page.items) |-> r.from[r.page.items[k] + 1].id]

\* onDataRequested on the local instance: sort, window, setItems, and
\* onStateChanged('DataLoaded') to the handlers
LocalDataRequested(op, i, st) ==
    /\ loads < MaxLoads
    /\ \E engine \in Engines :
          \E r \in {SortThenWindow(sortDs, st, sourceItems, engine)} :
             /\ sortDs' = r.sorted
             /\ localState' = r.page.state
             /\ sourceItems' = r.page.sourceItems
             /\ dsItems' = r.page.items
             /\ local' = [SetItems(local, WindowOf(r), ReturnsSource(st))
                             EXCEPT !.op = op]
             /\ seen' = IF subscriber = "none" THEN <<>>
                        ELSE <<[at |-> "onStateChanged", items |-> WindowOf(r),
                                source |-> Ids(r.sorted.sourceItems)]>>
             /\ lastPage' = [op |-> op, page |-> i, input |-> st,
                             atReturn |-> r.page.state]
    /\ loads' = loads + 1
    /\ UNCHANGED <<sortLast, exceptLocal>>

\* ds.reload()
LocalReload ==
    LocalDataRequested("reload", localState.pagination.pageIndex, localState)
\* ds.loadPage(i)
LocalLoadPage ==
    \E i \in 0..MaxPageIndex :
        LocalDataRequested("loadPage", i, SetPageIndex(localState, i))

\* ds.changeSort(fieldName, dir): onSortChanged, whose handler runs
\* sortItemsLocally(ds, fieldName) and nothing else
LocalChangeSort ==
    \E fieldName \in FieldNames, dir \in {Undefined, Some("asc"), Some("desc")},
       engine \in Engines :
        /\ sortDs.sortCalls < MaxSorts
        /\ dir = Undefined =>
              (sortDs.sort1Name = Some(fieldName) /\ sortDs.sort1Dir # Undefined)
        /\ sortDs' = SortItemsLocally(SetSort(sortDs, fieldName, dir),
                                      Some(fieldName), engine)
        /\ sourceItems' = RowsOf(sortDs'.sourceItems, sortDs.sourceItems, sourceItems)
        /\ dsItems' = IF local.own
                      THEN [k \in 1..Len(local.ids) |->
                               PositionOf(local.ids[k], sortDs'.sourceItems) - 1]
                      ELSE dsItems
        /\ sortLast' = [op |-> "changeSort", field |-> fieldName, dir |-> dir,
                        before |-> sortDs]
        /\ local' = [local EXCEPT !.op = "changeSort"]
        /\ seen' = <<>>
        /\ UNCHANGED <<localState, loads, lastPage, exceptLocal>>

\* a local instance with a source array that is not sorted, a sort that may
\* have come with the seed of the cache, and a handler on onStateChanged
InitLocal ==
    /\ IdleProvider
    /\ IdleQuery
    /\ IdleFactory
    /\ IdleShare
    /\ remote = NoRemote
    /\ inflight = {}
    /\ fired = <<>>
    /\ notified = NoNotified
    /\ remoteLast = NoRemoteLast
    /\ seen = <<>>
    /\ subscriber = "observer"
    /\ sortLast = NoSortLast
    /\ dsItems = <<>>
    /\ loads = 0
    /\ lastPage = NoLastPage
    /\ \E vals \in LocalSources, size \in LocalPageSizes, keeps \in BOOLEAN,
          sort1Name \in {Undefined, Some("Name")} :
          /\ sortDs = [NoSortDs EXCEPT
                          !.dataType = Some("number"),
                          !.defaultDir = "asc",
                          !.sort1Name = sort1Name,
                          !.sourceItems = [k \in 1..Len(vals) |-> Item(k, vals[k])]]
          /\ localState = [totalItemCount |-> Len(vals),
                           pagination |-> InitPagination(size)]
          /\ sourceItems = [j \in 1..Len(vals) |-> 0]
          /\ local = [NoLocal EXCEPT !.keeps = keeps]
NextLocal ==
    \/ LocalReload
    \/ LocalLoadPage
    \/ LocalChangeSort
SpecLocal == InitLocal /\ [][NextLocal]_vars

\* the step is the handler of onDataRequested / of onSortChanged
DataRequestedStep == loads' # loads
SortChangedStep == loads' = loads /\ local'.op = "changeSort"
\* the window of the step, read off the array as the step leaves it
WindowIds == [k \in 1..Len(dsItems') |-> sortDs'.sourceItems[dsItems'[k] + 1].id]
\* each onDataRequested sorts, then takes the window, then installs it, then
\* emits onStateChanged once
RequestedInOrder ==
    DataRequestedStep =>
        /\ \E engine \in Engines :
              sortDs' = SortItemsLocally(sortDs, sortDs.sort1Name, engine)
        /\ PageItems(local', sortDs') = WindowIds
        /\ Len(seen') = 1
        /\ seen'[1].at = "onStateChanged"
        /\ seen'[1].items = WindowIds
        /\ seen'[1].source = Ids(sortDs'.sourceItems)
\* onSortChanged sorts and emits nothing
SortChangedOnlySorts ==
    SortChangedStep =>
        /\ \E engine \in Engines :
              sortDs' = SortItemsLocally(SetSort(sortDs, sortLast'.field, sortLast'.dir),
                                         Some(sortLast'.field), engine)
        /\ localState' = localState
        /\ seen' = <<>>

Types == {"string", "number", "boolean"}
\* the values of a filters map of strings, numbers and booleans
TypedValues ==
    {Value("string", <<>>), Value("string", <<"x", "&", "y">>),
     Value("number", <<"0">>), Value("boolean", <<"f", "a", "l", "s", "e">>)}
TypedObjects ==
    {obj \in FilterObjects : \A k \in 1..Len(obj) : obj[k].value \in TypedValues}
\* Number(string) and the boolean a string stands for
ToNumber(chars) == IF chars = <<"0">> THEN chars ELSE <<"N", "a", "N">>
ToBoolean(chars) ==
    IF chars = <<"t", "r", "u", "e">> THEN chars ELSE <<"f", "a", "l", "s", "e">>
\* the coercion of a string of the query to the type of its key
Coerce(type, chars) ==
    CASE type = "number" -> Value("number", ToNumber(chars))
      [] type = "boolean" -> Value("boolean", ToBoolean(chars))
      [] OTHER -> Value("string", chars)
\* the dataType of the field of the key or of the override map, else 'string'
TypeOf(types, key) ==
    IF Len(key) = 1 /\ key[1] \in DOMAIN types THEN types[key[1]] ELSE "string"
\* ds.applyQueryParams(params, customFieldTypes) on a fresh instance: the
\* filters it has afterwards
ApplyQueryParams(params, types) ==
    [k \in 1..Len(params) |->
        [key |-> params[k].key,
         value |-> Coerce(TypeOf(types, params[k].key), params[k].chars)]]

\* the router decodes the query string of the URL and the component hands the
\* parameters to applyQueryParams
ApplyDecoded ==
    /\ queried
    /\ ~applied.done
    /\ queryFilters # <<>>
    /\ applied' = [applied EXCEPT
                      !.done = TRUE,
                      !.filters = ApplyQueryParams(ParseQuery(queryString),
                                                   applied.types)]
    /\ UNCHANGED <<queryFilters, queryString, queried, exceptQuery>>

\* a filters map of strings, numbers and booleans about to be encoded, and the
\* data types declared for its keys
InitRound ==
    /\ IdleProvider
    /\ IdlePage
    /\ IdleSort
    /\ IdleRemote
    /\ IdleFactory
    /\ IdleApp
    /\ IdleLocal
    /\ IdleShare
    /\ queryFilters \in {<<obj>> : obj \in TypedObjects}
    /\ queryString = <<>>
    /\ queried = FALSE
    /\ applied \in {[NoApplied EXCEPT !.types = t] : t \in [QueryKeys -> Types]}
NextRound ==
    \/ EncodeFilters
    \/ ApplyDecoded
SpecRound == InitRound /\ [][NextRound]_vars

\* the properties of a filters object as applyQueryParams leaves them
AsFilters(obj) ==
    [k \in 1..Len(obj) |-> [key |-> <<obj[k].key>>, value |-> obj[k].value]]
\* the object without its empty strings
NonEmpty(obj) == SelectSeq(obj, LAMBDA prop : prop.value # Value("string", <<>>))
\* every key of the object has the data type of its value declared
Declared ==
    \A k \in 1..Len(queryFilters[1]) :
        applied.types[queryFilters[1][k].key] = queryFilters[1][k].value.type
C31_IndexAgrees ==
    /\ DOMAIN cacheMap = Keys(dsCaches)
    /\ \A k \in DOMAIN cacheMap :
          \E j \in 1..Len(dsCaches) :
              dsCaches[j].oid = cacheMap[k] /\ EntryKey(dsCaches[j]) = k
\* a save into the loaded full store evicted, its write failed and the
\* eviction ran again
C31_Witness ==
    /\ last.op = "save" /\ last.isNew /\ last.evicted /\ last.cleanedAgain
    /\ Len(dsCaches) = KEEP_NEWEST
    /\ Cardinality(DOMAIN cacheMap) = KEEP_NEWEST

\* the store of a session whose clock read an hour later than the clock reads
\* now (the wall clock was set back in between): new Date() is the wall clock,
\* and _isCacheValid accepts a date that lies ahead
SkewedEntry(i) == [BaseEntry(i) EXCEPT !.date = IsoDate(Now0 + 1)]
SkewedStorages == {JsonArray([i \in 1..n |-> SkewedEntry(i)]) : n \in StoreSizes}
InitSkew == InitWith(CacheStorages \cup SkewedStorages, {SaveStateOn}, {NoConfig})
SpecSkew == InitSkew /\ [][NextSave]_vars

\* the entry the index holds for the instance and the path, as a set
FoundFor(map, caches, i, path) ==
    {j \in 1..Len(caches) : caches[j].oid = GetCacheById(map, ds[i].id, path)}

\* C32: after save(entry) returns, getById(entry.id, entry.pathName) returns
\* an entry that carries the saved state, also when the store was full and
\* when the write failed and the eviction ran.
C32_SavedIsFound ==
    [][(last'.op = "save" /\ pathname' = pathname) =>
          \E j \in FoundFor(cacheMap', dsCaches', last'.ds, pathname) :
              dsCaches'[j].state = Ref(last'.ds)]_vars

(* ------------------------------------------------------------------ *)
(* Remote fetch: overlapping requests and the saved record               *)
(* ------------------------------------------------------------------ *)
\* C33: a remote instance (that is not disposed) is Loading whenever a
\* transport call issued for it has not had its callback invoked, also while
\* two reloads overlap and the first callback has fired.
C33_LoadingWhileInFlight ==
    (inflight # {} /\ ~remote.isDisposed) => remote.isLoading

(* ------------------------------------------------------------------ *)
(* The configuration objects                                             *)
(* ------------------------------------------------------------------ *)
\* A configuration object holds a reference to an object for each of its
\* sections.  configObjects.heap gives every section object its content (one
\* key per section: pagination.pageSize, sort.defaultDir, as a number; 0 is
\* the default); the sections of defaultLdsConfig are the objects 1 and 2.
\* The http section is copied by the same statements and is left out.
Sections == {"pagination", "sort"}
DefaultConfigObject == [pagination |-> 1, sort |-> 2]
\* the sections a caller passes: none, or one that sets the key
SectionInputs(values) == [Sections -> {Undefined} \cup {Some(v) : v \in values}]

\* Object.assign({}, config): a new object whose properties are those of
\* config, the references to the section objects among them
ObjectAssign(config) == config

\* copyConfigSection(target, source): the keys of the source that are not
\* undefined are written into the target object
CopyConfigSection(heap, target, source) ==
    IF source = Undefined THEN heap ELSE [heap EXCEPT ![target] = source[1]]

\* copyConfig(target, source): if (source.pagination) ..., if (source.sort) ...
CopyConfig(heap, target, source) ==
    CopyConfigSection(CopyConfigSection(heap, target.pagination, source.pagination),
                      target.sort, source.sort)

\* what a configuration object says, read through its sections
ConfigView(heap, config) == [s \in Sections |-> heap[config[s]]]

\* new ListDataSource(id, type, ldsConfig, cache) of the core package keeps
\* the object it is given, or builds a copy with sections of its own
KeepOrCopy(heap, config, copies) ==
    IF copies
    THEN [heap |-> heap \o <<heap[config.pagination], heap[config.sort]>>,
          config |-> [pagination |-> Len(heap) + 1, sort |-> Len(heap) + 2]]
    ELSE [heap |-> heap, config |-> config]

\* the constructor of the provider over a storage that holds nothing:
\* this.config = Object.assign({}, defaultLdsConfig); copyConfig(this.config,
\* ldsConfig); _loadDsCaches() returns at once
ConstructWithConfig ==
    /\ ~constructed
    /\ storage = Absent
    /\ \E arg \in SectionInputs({1}) :
          configObjects' =
              [configObjects EXCEPT
                  !.heap = CopyConfig(configObjects.heap,
                                      ObjectAssign(DefaultConfigObject), arg),
                  !.provider = <<[config |-> ObjectAssign(DefaultConfigObject),
                                  arg |-> arg]>>]
    /\ constructed' = TRUE
    /\ last' = [NoLast EXCEPT !.op = "load", !.at = now, !.readOk = TRUE,
                   !.input = storage, !.backend = Backend(ProviderConfig(ldsConfig))]
    /\ UNCHANGED <<now, ticks, pathname, storage, dsCaches, cacheMap, ds, pageVars,
                   configVars, sortVars, queryVars, remoteVars, factoryVars, appVars,
                   localVars>>

\* createNewRemoteDataSource / createNewLocalDataSource with a configuration:
\* ldsConfig = Object.assign({}, this.config); copyConfig(ldsConfig, config);
\* new ListDataSource(dataSourceId, type, ldsConfig, cache)
CreateWithConfig ==
    /\ constructed
    /\ Len(configObjects.instances) < MaxMade
    /\ \E config \in SectionInputs({1, 2}) :
          \E r \in {KeepOrCopy(CopyConfig(configObjects.heap,
                                          ObjectAssign(configObjects.provider[1].config),
                                          config),
                               ObjectAssign(configObjects.provider[1].config),
                               configObjects.copies)} :
             configObjects' =
                 [configObjects EXCEPT
                     !.heap = r.heap,
                     !.instances = Append(@, [config |-> r.config, arg |-> config])]
    /\ UNCHANGED <<cacheVars, pageVars, configVars, sortVars, queryVars, remoteVars,
                   factoryVars, appVars, localVars>>

\* a provider about to be constructed over an empty storage; copies: what the
\* constructor of ListDataSource does with the configuration it is given
InitShare ==
    /\ InitProvider({Absent}, {NoConfig}, {NoConfig})
    /\ configObjects \in {[NoConfigObjects EXCEPT !.copies = c] : c \in BOOLEAN}
NextShare ==
    \/ ConstructWithConfig
    \/ CreateWithConfig
SpecShare == InitShare /\ [][NextShare]_vars

\* the configuration the provider was constructed with: the defaults with
\* the sections of the constructor's argument over them
AsConstructed ==
    [s \in Sections |->
        IF configObjects.provider[1].arg[s] = Undefined THEN 0
        ELSE configObjects.provider[1].arg[s][1]]
\* the step creates an instance
CreatesInstance == Len(configObjects'.instances) > Len(configObjects.instances)

\* C34: creating an instance with a configuration of its own changes neither
\* the configuration of the provider nor that of an instance created before,
\* and an instance gets the provider's configuration as constructed in every
\* section it does not override itself.
C34_OverrideStaysLocal ==
    [][CreatesInstance =>
          /\ ConfigView(configObjects'.heap, configObjects.provider[1].config)
                = ConfigView(configObjects.heap, configObjects.provider[1].config)
          /\ \A i \in 1..Len(configObjects.instances) :
                ConfigView(configObjects'.heap, configObjects.instances[i].config)
                   = ConfigView(configObjects.heap, configObjects.instances[i].config)
          /\ \A s \in Sections :
                LET new == configObjects'.instances[Len(configObjects'.instances)]
                IN new.arg[s] = Undefined =>
                      ConfigView(configObjects'.heap, new.config)[s] = AsConstructed[s]]_vars

(* ------------------------------------------------------------------ *)
(* Remote fetch: what the callback persists                              *)
(* ------------------------------------------------------------------ *)
\* a remote instance of a provider with saveState, watched by a handler
InitPersist == InitRemoteWith({<<SaveStateOn, NoConfig>>}, {"observer"})
SpecPersist == InitPersist /\ [][NextLive]_vars

\* the sort and the page of the view state of the remote instance
SortAndPage(r) == [sort1Name |-> r.sort1Name, pageIndex |-> r.pageIndex]

\* C35: with saveState true, when a fetch callback returns the record the
\* callback persisted (ds.state as the handlers of onStateChanged found it
\* and JSON.stringify wrote it) equals the view state of the instance at that
\* moment, also after a result with the error flag.
C35_PersistedIsCurrent ==
    [][(CallbackStep /\ ds[1].saveState) =>
          /\ Len(seen') = 2
          /\ seen'[2].at = "onStateChanged"
          /\ SortAndPage(seen'[2]) = SortAndPage(remote')]_vars

(* ------------------------------------------------------------------ *)
(* The factory and the cache: ids left out, paths left behind            *)
(* ------------------------------------------------------------------ *)
\* the step is a factory call of getRemoteDataSource / getLocalDataSource
\* without a dataSourceId
GetsWithoutId ==
    made'.count # made.count /\ made'.method = "get" /\ made'.arg = Undefined

\* C36: when an instance created by get...DataSource without a dataSourceId
\* has saved its state at an address, a later get...DataSource without a
\* dataSourceId at the same address is handed that saved entry.
C36_OmittedIdSeeds ==
    [][(GetsWithoutId /\ StoredUnder(Some(Href(pathname)), pathname) # {}) =>
          made'.cache \in
              {dsCaches[j].oid : j \in StoredUnder(Some(Href(pathname)), pathname)}]_vars

\* the step is a save of the instance the last factory call created
SavesMade ==
    /\ made.count > 0 /\ made' = made /\ pathname' = pathname
    /\ last'.op = "save" /\ last'.ds = made.ds
    /\ dsCaches' # dsCaches

\* C37: every snapshot an instance saves is stored under the key of the path
\* that was current when the instance was created, also when the state
\* changes after the application has navigated to another path.
C37_SavedUnderCreationPath ==
    [][SavesMade =>
          \E j \in FoundFor(cacheMap', dsCaches', made.ds, made.path) :
              /\ dsCaches'[j].state = Ref(made.ds)
              /\ dsCaches'[j].date = IsoDate(now)]_vars

(* ------------------------------------------------------------------ *)
(* Local instance: the source array is replaced                          *)
(* ------------------------------------------------------------------ *)
\* ds.setSourceItems(items) by the application: the source array is replaced
\* and the derived state is recomputed (the count of the items; the page that
\* was installed is dropped).  appliedSortName stays: sortItemsLocally itself
\* sets it and then calls setSourceItems with the sorted array, and relies on
\* finding it again.
LocalSetSourceItems ==
    \E vals \in LocalSources :
        /\ sortDs' = [sortDs EXCEPT
                         !.sourceItems = [k \in 1..Len(vals) |-> Item(k, vals[k])]]
        /\ localState' = [localState EXCEPT !.totalItemCount = Len(vals)]
        /\ sourceItems' = [j \in 1..Len(vals) |-> 0]
        /\ dsItems' = <<>>
        /\ local' = [local EXCEPT !.op = "setSourceItems", !.own = TRUE, !.ids = <<>>]
        /\ seen' = <<>>
        /\ UNCHANGED <<loads, lastPage, sortLast, exceptLocal>>

NextReplace ==
    \/ LocalReload
    \/ LocalChangeSort
    \/ LocalSetSourceItems
SpecReplace == InitLocal /\ [][NextReplace]_vars

\* the items with a value come first, in the direction, and those without after
OrderedBy(items, dir) ==
    \A i, j \in 1..Len(items) :
        i < j =>
           /\ items[i].val = Null => items[j].val = Null
           /\ (items[i].val # Null /\ items[j].val # Null) =>
                 IF dir = "desc" THEN items[i].val[1] >= items[j].val[1]
                 ELSE items[i].val[1] <= items[j].val[1]

\* C38: after a reload of a local instance whose sort1Name names a registered
\* field the source array is ordered by that field in the direction of the
\* sort, nulls last, whatever setSourceItems, changeSort and reload calls came
\* before.
C38_ReloadLeavesSorted ==
    (/\ local.op = "reload"
     /\ sortDs.sort1Name # Undefined
     /\ HasField(sortDs.sort1Name[1])) =>
        OrderedBy(sortDs.sourceItems, DirOrDefault(sortDs))

(* ------------------------------------------------------------------ *)
(* Local instance: the row numbers of the window                         *)
(* ------------------------------------------------------------------ *)
\* C39: after a local reload every item of the window has a row number equal
\* to its 0-based position in the source array plus 1, also when the full
\* source is returned and after the source was sorted again.
C39_RowNumbersFollowPosition ==
    local.op = "reload" =>
        \A k \in 1..Len(dsItems) : sourceItems[dsItems[k] + 1] = dsItems[k] + 1
\* the same for the reloads that build a window
WindowedRowNumbers ==
    (local.op = "reload" /\ ~ReturnsSource(lastPage.input)) =>
        \A k \in 1..Len(dsItems) : sourceItems[dsItems[k] + 1] = dsItems[k] + 1

(* ------------------------------------------------------------------ *)
(* The pager component                                                   *)
(* ------------------------------------------------------------------ *)
\* state.pagination.totalPageCount as the data source keeps it: the pages the
\* items fill
TotalPageCount(st) == CeilDiv(st.totalItemCount, st.pagination.pageSize)

\* goToPage(index): this._dataSource.loadPage(index), on a local instance
GoToPage(op, index) ==
    /\ ds[1].type = "local" /\ ~ds[1].saveState
    /\ OnDataRequested(op, index, SetPageIndex(localState, index))

GoToFirstPage == GoToPage("goToFirstPage", 0)

\* if (totalPageCount - 1 === pageIndex) return
GoToLastPage ==
    /\ TotalPageCount(localState) - 1 # localState.pagination.pageIndex
    /\ GoToPage("goToLastPage", TotalPageCount(localState) - 1)

\* if (pageIndex - 1 < 0) return
GoToPreviousPage ==
    /\ ~(localState.pagination.pageIndex - 1 < 0)
    /\ GoToPage("goToPreviousPage", localState.pagination.pageIndex - 1)

\* if (totalPageCount - 1 < pageIndex + 1) return
GoToNextPage ==
    /\ ~(TotalPageCount(localState) - 1 < localState.pagination.pageIndex + 1)
    /\ GoToPage("goToNextPage", localState.pagination.pageIndex + 1)

\* a local instance on one of its pages (on page 0 when it has no items)
InitPager ==
    /\ InitPage
    /\ localState.pagination.pageIndex <= Max(TotalPageCount(localState) - 1, 0)
NextPager ==
    \/ GoToFirstPage
    \/ GoToLastPage
    \/ GoToPreviousPage
    \/ GoToNextPage
SpecPager == InitPager /\ [][NextPager]_vars

\* C40: goToFirstPage, goToLastPage, goToPreviousPage and goToNextPage call
\* loadPage only with an index from 0 to totalPageCount - 1 and never with
\* the current page index, in every pagination state, totalPageCount = 0
\* included.
C40_PagerLoadsOtherPageInRange ==
    [][loads' # loads =>
          /\ 0 <= lastPage'.page
          /\ lastPage'.page <= TotalPageCount(localState) - 1
          /\ lastPage'.page # localState.pagination.pageIndex]_vars
\* what goToPreviousPage and goToNextPage keep of it
PreviousAndNextInRange ==
    [][(loads' # loads /\ lastPage'.op \in {"goToPreviousPage", "goToNextPage"}) =>
          /\ 0 <= lastPage'.page
          /\ lastPage'.page # localState.pagination.pageIndex
          /\ lastPage'.op = "goToNextPage" =>
                lastPage'.page <= TotalPageCount(localState) - 1]_vars

====
